---- MODULE Spec2Model ----
(***************************************************************************)
(* A model of radsecproxy (src/radsecproxy.c): the per-upstream request    *)
(* table with its writer (clientwr) and reply handler (replyh), the        *)
(* request path (radsrv, sendrq), the reply queues, the upstream TLS       *)
(* session (tlsconnect, clientradput, tlsclientrd) and the inbound TLS     *)
(* listener with its certificate checks (tlslistener, tlsservernew,        *)
(* verifyconfcert).                                                        *)
(*                                                                         *)
(* Six specifications share the module:                                    *)
(*   Spec     the request table of one upstream server, its writer, the    *)
(*            reply handler and two clients (one UDP, one TLS);            *)
(*   SpecTime the same with one request and a finer clock, for the timers; *)
(*   SpecRq   the same with requests of every kind, for what radsrv drops, *)
(*            answers and rejects;                                         *)
(*   SpecTls  the session of one TLS upstream under reconnection;          *)
(*   SpecIn   one inbound TLS connection from accept to close;             *)
(*   SpecRealm the servers of a realm and the choice of realm2server.      *)
(* SpecInFair and SpecRealmFair add to SpecIn and SpecRealm the progress   *)
(* of the threads.                                                         *)
(* Time is the tv_sec value gettimeofday returns (the code compares        *)
(* tv_sec only).                                                           *)
(***************************************************************************)
EXTENDS Integers, Sequences, FiniteSets, TLC

(***************************************************************************)
(* Bounds of the model.                                                    *)
(***************************************************************************)
\* slots of a request table (the program has 256, one per RADIUS id)
MAX_REQUESTS == 2
\* requests that radsrv hands to sendrq in one behaviour
MaxRq == 2
\* replies a reply queue holds in the model (the program's queues are unbounded)
MaxQ == 1
\* Spec: seconds between two observations of the clock, and the last second
TickStep == 25
MaxTime == 25
\* SpecTime: the same, for the specification that follows the timers
TimeStep == 5
TimeMax == 50
\* SpecTime: the number of requests the clients send
TimeRq == 1

(***************************************************************************)
(* Program constants (radsecproxy.h is not among the sources; the values   *)
(* are the ones the specification gives).                                  *)
(***************************************************************************)
REQUEST_RETRIES == 3
REQUEST_EXPIRY == 20
STATUS_SERVER_PERIOD == 25

NULL == "NULL"

(***************************************************************************)
(* Configuration: two client configurations with one client instance each  *)
(* (the UDP one answers on the shared udp_server_replyq, the TLS one on    *)
(* its own queue), and one server whose transport and StatusServer option  *)
(* are fixed at start.                                                     *)
(***************************************************************************)
Clients == {"cu", "ct"}

ClientType(c) == IF c = "cu" THEN "U" ELSE "T"

ClientSecret(c) == IF c = "cu" THEN "secret-cu" ELSE "secret-ct"

ServerSecret == "secret-s"

\* source addresses of datagrams that match the UDP client configuration
SrcAddrs == {"a1", "a2"}

\* the zeroed sockaddr_storage of a request that did not arrive by UDP
NoAddr == "0"

\* RADIUS ids clients use, request authenticators they send, and the values
\* RAND_bytes returns for the authenticator of a forwarded request
Ids == {7, 8}

Auths == {"o1", "o2"}

NewAuths == {"n1"}
\* the request authenticators a reply's digest may have been computed over
ReplyAuths == {"n1", "n2"}

\* The requests the model lets the clients send: who sends, from which
\* address, with which id and authenticator, and whether the client's
\* rewriteattrregex matches the User-Name. Two datagrams of the UDP client
\* share an id, as do a datagram and a packet of the TLS client.
ClientSends ==
    { [from |-> "cu", fromsa |-> "a1", id |-> 7, auth |-> "o1", rewritten |-> FALSE],
      [from |-> "cu", fromsa |-> "a2", id |-> 7, auth |-> "o2", rewritten |-> FALSE],
      [from |-> "cu", fromsa |-> "a1", id |-> 8, auth |-> "o2", rewritten |-> TRUE],
      [from |-> "ct", fromsa |-> NoAddr, id |-> 7, auth |-> "o1", rewritten |-> FALSE] }

ReplyCodes == {"Access-Accept", "Access-Reject", "Access-Challenge"}

(***************************************************************************)
(* State.                                                                  *)
(***************************************************************************)
VARIABLES
    clock,          \* tv_sec of the system clock
    srvconf,        \* the server's configuration: [type, statusserver]
    requests,       \* server->requests: slot index -> request
    nextid,         \* server->nextid
    newrq,          \* server->newrq
    connectionok,   \* server->connectionok
    loststatsrv,    \* server->loststatsrv
    wr,             \* the clientwr thread: [pc, i, now, timeout, lastsend]
    replyq,         \* client -> its reply queue (a sequence of replies)
    nrq,            \* history: the number of requests radsrv handed to sendrq
    lastfree,       \* history: why the writer freed a slot last
    clconfs,        \* the list of client configurations (SpecIn)
    inc,            \* the inbound TLS connection and its thread (SpecIn)
    server,         \* the TLS upstream: [ssl, lock, lastconnecttry, ...] (SpecTls)
    th,             \* the threads clientwr and tlsclientrd of it (SpecTls)
    sent,           \* history: the sessions SSL_write sent a packet on (SpecTls)
    srvconfs,       \* the servers of a realm, in the order of its list (SpecRealm)
    routed,         \* history: the last choice of realm2server (SpecRealm)
    lastlog,        \* the last line logged about a request taken in (SpecRq)
    qhist,          \* history: client -> the replies queued and sent (SpecQ)
    work            \* the bytes a packet primitive works on, and its result

coreVars == <<clock, srvconf, requests, nextid, newrq, connectionok,
              loststatsrv, wr, replyq, nrq, lastfree>>

inVars == <<clconfs, inc>>

tlsVars == <<server, th, sent>>

realmVars == <<srvconfs, routed>>

vars == <<coreVars, inVars, tlsVars, realmVars, lastlog, qhist, work>>

(***************************************************************************)
(* A request slot. buf is the packet: NullBuf stands for the null pointer. *)
(* The last four fields are history: hist is the request as radsrv         *)
(* received it ([from, fromsa, id, auth], NoHist for a Status-Server       *)
(* probe), created the second sendrq stored it, lastsent the clock reading *)
(* of the writer at its last transmission, nfwd the number of replies      *)
(* replyh enqueued for it.                                                 *)
(***************************************************************************)
NoHist == [from |-> NULL, fromsa |-> NULL, id |-> 0, auth |-> NULL]

NullBuf == [code |-> NULL, id |-> 0, auth |-> NULL]

\* memset(&rq, 0, sizeof(struct request)) / calloc
ZeroRequest ==
    [buf |-> NullBuf, received |-> FALSE, tries |-> 0, expiry |-> 0,
     from |-> NULL, fromsa |-> NoAddr, origid |-> 0, origauth |-> NULL,
     origusername |-> FALSE,
     hist |-> NoHist, created |-> 0, lastsent |-> 0, nfwd |-> 0]

SlotIds == 0 .. (MAX_REQUESTS - 1)

InUse(i) == requests[i].buf # NullBuf

\* freerqdata(rq); rq->buf = NULL. Of a free slot only buf and from are read
\* (sendrq overwrites the whole struct), so the model clears the other fields.
Freed(rq) == [ZeroRequest EXCEPT !.from = rq.from]

(***************************************************************************)
(* MD5 response authenticator: the digest is kept as the pair it was       *)
(* computed over, so two digests are equal iff their inputs are.           *)
(***************************************************************************)
\* radsign: MD5(code | id | length | rad+4 | attrs | secret) written to rad+4
radsign(buf, sec) == [buf EXCEPT !.auth = [over |-> buf.auth, sec |-> sec]]

\* the mutant of validauth: every authenticator passes
validauthAny(buf, reqauth, sec) == TRUE

\* validauth: the reply's authenticator is the digest over reqauth and sec
validauth(buf, reqauth, sec) == buf.auth = [over |-> reqauth, sec |-> sec]

(***************************************************************************)
(* Realms. id2realm picks the first realm whose regex matches the          *)
(* User-Name; the model names the realm a request's User-Name matches.     *)
(* "r1" lists the server, "r0" lists no server and has a reply message,    *)
(* "r00" lists no server and has no message.                               *)
(***************************************************************************)
Realms == {"r1", "r0", "r00"}

\* realm->srvconfs, as the sequence of the servers' [connectionok, loststatsrv]
RealmServers(r) ==
    IF r = "r1"
    THEN <<[connectionok |-> connectionok, loststatsrv |-> loststatsrv]>>
    ELSE <<>>

RealmMessage(r) == IF r = "r0" THEN "no route" ELSE NULL

\* The loop of realm2server over srvs[k .. Len(srvs)] with best so far (0: none).
RECURSIVE realm2serverFrom(_, _, _)
realm2serverFrom(srvs, k, best) ==
    IF k > Len(srvs) THEN best
    ELSE IF ~srvs[k].connectionok THEN realm2serverFrom(srvs, k + 1, best)
    ELSE IF srvs[k].loststatsrv = 0 THEN k
    ELSE IF best = 0 THEN realm2serverFrom(srvs, k + 1, k)
    ELSE IF srvs[k].loststatsrv < srvs[best].loststatsrv
         THEN realm2serverFrom(srvs, k + 1, k)
         ELSE realm2serverFrom(srvs, k + 1, best)

\* the mutant of realm2server: a server that lost probes is never the best
realm2serverNoBest(srvs) ==
    LET best == realm2serverFrom(srvs, 1, 0)
        first == IF Len(srvs) > 0 THEN 1 ELSE 0
    IN  IF best # 0 /\ srvs[best].loststatsrv = 0 THEN best ELSE first

\* realm2server: the index of the chosen server in srvs, 0 for a null result
realm2server(srvs) ==
    LET best == realm2serverFrom(srvs, 1, 0)
        first == IF Len(srvs) > 0 THEN 1 ELSE 0
    IN  IF best # 0 THEN best ELSE first

(***************************************************************************)
(* sendreply: sign with the client's secret and append to its queue.       *)
(* hist and via are history fields of a queued reply: the request it       *)
(* answers, as radsrv received it, and the function that produced it.      *)
(***************************************************************************)
sendreplyFirst(q, to, buf, tosa, hist, via) ==
    [q EXCEPT ![to] = <<[buf |-> radsign(buf, ClientSecret(to)),
                         tosa |-> tosa, hist |-> hist, via |-> via]>> \o @]

sendreply(q, to, buf, tosa, hist, via) ==
    [q EXCEPT ![to] = Append(@, [buf |-> radsign(buf, ClientSecret(to)),
                                 tosa |-> tosa, hist |-> hist, via |-> via])]

\* the tosa argument the callers of sendreply pass for a request's sender
ReplyAddr(from, fromsa) == IF ClientType(from) = "U" THEN fromsa ELSE NoAddr

(***************************************************************************)
(* sendrq (under newrq_mutex): scan for a free slot from nextid to the     *)
(* end, then from 0 to nextid; none: drop.                                 *)
(***************************************************************************)
FreeIn(lo, hi) == {i \in SlotIds : lo <= i /\ i < hi /\ ~InUse(i)}

SetMin(S) == CHOOSE x \in S : \A y \in S : x <= y

\* the mutant of sendrq's scan: take nextid's slot without looking at buf
SlotForNewRqNoScan == nextid % MAX_REQUESTS

\* the slot sendrq stores into, MAX_REQUESTS when the table is full
SlotForNewRq ==
    IF FreeIn(nextid, MAX_REQUESTS) # {} THEN SetMin(FreeIn(nextid, MAX_REQUESTS))
    ELSE IF FreeIn(0, nextid) # {} THEN SetMin(FreeIn(0, nextid))
    ELSE MAX_REQUESTS

\* the mutant of the store: the packet keeps the id it came with
StoredRqKeepId(rq, i) == [rq EXCEPT !.created = clock]

\* rq->buf[1] = (char)i; to->requests[i] = *rq
StoredRq(rq, i) == [rq EXCEPT !.buf.id = i, !.created = clock]

sendrq(rq) ==
    LET i == SlotForNewRq IN
    IF i = MAX_REQUESTS
    THEN UNCHANGED <<requests, nextid, newrq>>
    ELSE /\ requests' = [requests EXCEPT ![i] = StoredRq(rq, i)]
         /\ nextid' = i + 1
         /\ newrq' = TRUE

(***************************************************************************)
(* rqinqueue: some slot holds an unreceived request of this client with    *)
(* this id.                                                                *)
(***************************************************************************)
\* the mutant of rqinqueue: the duplicate test is left out
rqinqueueNever(from, id) == FALSE

rqinqueue(from, id) ==
    \E i \in SlotIds :
        /\ InUse(i)
        /\ ~requests[i].received
        /\ requests[i].origid = id
        /\ requests[i].from = from

(***************************************************************************)
(* radsrv, called by udpserverrd (from the UDP client, with the datagram's *)
(* source address) and by tlsserverrd (from the TLS client). fault names   *)
(* what is wrong with the packet, "ok" when nothing is.                    *)
(***************************************************************************)
\* A packet is what a client sends (snd), its code, what is wrong with it
\* (fault) and the realm its User-Name matches.
RequestCodes == {"Access-Request", "Accounting-Request", "Status-Server", "Other"}

RequestFaults == {"ok", "badattrs", "badmsgauth", "nouser", "norealm", "pwdfail"}

AllRequestPackets ==
    [snd : ClientSends, code : RequestCodes, fault : RequestFaults, realm : Realms]

\* The packets Spec draws: each of ClientSends as an Access-Request without
\* fault for the realm with the server, and of the UDP client's first datagram
\* also an Accounting-Request, an unsupported code and two faulty requests.
RequestPackets ==
    {p \in AllRequestPackets :
        /\ p.realm = "r1"
        /\ (p.code # "Access-Request" \/ p.fault # "ok")
              => (p.snd.from = "cu" /\ p.snd.id = 7 /\ p.snd.auth = "o1")
        /\ p.code \in {"Access-Request", "Accounting-Request", "Other"}
        /\ p.code # "Access-Request" => p.fault = "ok"
        /\ p.fault \in {"ok", "badattrs", "pwdfail"}}

\* respondaccounting, respondstatusserver, respondreject: the first 20 bytes of
\* the request with the code replaced, sent to the request's sender
Respond(from, fromsa, code, id, auth) ==
    /\ Len(replyq[from]) < MaxQ
    /\ replyq' = sendreply(replyq, from, [code |-> code, id |-> id, auth |-> auth],
                           ReplyAddr(from, fromsa), NoHist, "radsrv")

\* the mutant of respondreject: the reply carries no attribute
respondrejectBare(from, fromsa, id, auth, message) ==
    Respond(from, fromsa, "Access-Reject", id, auth)

\* respondreject: the first 20 bytes of the request with the code replaced
\* and, for a message that is not empty, one Reply-Message attribute
respondreject(from, fromsa, id, auth, message) ==
    /\ Len(replyq[from]) < MaxQ
    /\ replyq' = sendreply(replyq, from,
                           [code |-> "Access-Reject", id |-> id, auth |-> auth,
                            attrs |-> IF message # NULL /\ message # ""
                                      THEN <<[type |-> "Reply-Message",
                                              val |-> message]>>
                                      ELSE <<>>],
                           ReplyAddr(from, fromsa), NoHist, "radsrv")

\* the mutant of the test of the code: every code is taken
UnsupportedCodeNever(code) == FALSE

\* code != RAD_Access_Request && code != RAD_Status_Server
\*     && code != RAD_Accounting_Request
UnsupportedCode(code) ==
    code \notin {"Access-Request", "Status-Server", "Accounting-Request"}

radsrv(from, fromsa, p, newauth) ==
    LET to == realm2server(RealmServers(p.realm))
        id == p.snd.id
        auth == p.snd.auth
    IN
    IF UnsupportedCode(p.code) \/ p.fault \in {"badattrs", "badmsgauth"}
    THEN UNCHANGED coreVars
    ELSE IF p.code # "Access-Request"
    THEN /\ Respond(from, fromsa,
                    IF p.code = "Accounting-Request" THEN "Accounting-Response"
                                                     ELSE "Access-Accept",
                    id, auth)
         /\ UNCHANGED <<clock, srvconf, requests, nextid, newrq, connectionok,
                        loststatsrv, wr, nrq, lastfree>>
    ELSE IF p.fault \in {"nouser", "norealm"}
    THEN UNCHANGED coreVars
    ELSE IF to # 0 /\ rqinqueue(from, id)
    THEN UNCHANGED coreVars
    ELSE IF to = 0
    THEN IF RealmMessage(p.realm) # NULL
         THEN /\ respondreject(from, fromsa, id, auth, RealmMessage(p.realm))
              /\ UNCHANGED <<clock, srvconf, requests, nextid, newrq, connectionok,
                             loststatsrv, wr, nrq, lastfree>>
         ELSE UNCHANGED coreVars
    ELSE IF p.fault = "pwdfail"
    THEN UNCHANGED coreVars
    ELSE /\ nrq < MaxRq
         /\ nrq' = nrq + 1
         /\ sendrq([ZeroRequest EXCEPT
                        !.buf = [code |-> "Access-Request", id |-> id, auth |-> newauth],
                        !.from = from, !.fromsa = fromsa,
                        !.origid = id, !.origauth = auth,
                        !.origusername = p.snd.rewritten,
                        !.hist = [from |-> from, fromsa |-> fromsa, id |-> id,
                                  auth |-> auth]])
         /\ UNCHANGED <<clock, srvconf, connectionok, loststatsrv, wr, replyq, lastfree>>

\* udpserverrd: a datagram that matches the UDP client configuration
UdpServerRd ==
    \E p \in RequestPackets, newauth \in NewAuths :
        /\ p.snd.from = "cu"
        /\ radsrv("cu", p.snd.fromsa, p, newauth)

\* tlsserverrd: a packet read from the TLS client's session
TlsServerRd ==
    \E p \in RequestPackets, newauth \in NewAuths :
        /\ p.snd.from = "ct"
        /\ radsrv("ct", NoAddr, p, newauth)

(***************************************************************************)
(* replyh, called by udpclientrd and tlsclientrd with a packet from the    *)
(* server. connectionok and loststatsrv are set before anything is tested; *)
(* everything from the slot lookup to sendreply runs under newrq_mutex.    *)
(***************************************************************************)
ReplyFaults == {"ok", "badattrs", "badmsgauth", "mppefail", "nouser"}

\* The packets Spec draws from the server: for every id and every request
\* authenticator an Access-Accept signed with the server's secret, one whose
\* signature is not the server's, one of a code replyh does not take, and one
\* with each fault.
ReplyBufs ==
    {b \in [code : {"Access-Accept", "Accounting-Response"},
            id : SlotIds,
            auth : [over : ReplyAuths, sec : {ServerSecret, "secret-x"}]] :
        (b.code = "Accounting-Response" \/ b.auth.sec # ServerSecret)
            => (b.auth.over = "n1" /\ b.id = 0)}

ReplyPackets ==
    {p \in [buf : ReplyBufs, fault : ReplyFaults] :
        p.fault # "ok" => /\ p.buf.code = "Access-Accept"
                          /\ p.buf.auth = [over |-> "n1", sec |-> ServerSecret]
                          /\ p.buf.id = 0}

\* the mutant of the received test: a second reply passes it
AlreadyReceivedNever(rq) == FALSE

\* if (rq->received): the slot already has its reply
AlreadyReceived(rq) == rq.received

\* the mutant of the restore: the reply keeps the id the server used
RestoredKeepId(buf, rq) == [buf EXCEPT !.auth = rq.origauth]

\* buf[1] = (char)rq->origid; memcpy(buf + 4, rq->origauth, 16)
Restored(buf, rq) == [buf EXCEPT !.id = rq.origid, !.auth = rq.origauth]

\* the mutant of the drops: a reply without User-Name is taken
ReplyDroppedNameless(buf, fault, rq) ==
    \/ rq.buf = NullBuf \/ rq.tries = 0
    \/ AlreadyReceived(rq)
    \/ ~validauth(buf, rq.buf.auth, ServerSecret)
    \/ fault \in {"badattrs", "badmsgauth"}
    \/ /\ rq.buf.code # "Status-Server"
       /\ \/ rq.from = NULL
          \/ fault = "mppefail"

\* the conditions under which replyh returns 0 with the mutex released and
\* the slot untouched
ReplyDropped(buf, fault, rq) ==
    \/ rq.buf = NullBuf \/ rq.tries = 0
    \/ AlreadyReceived(rq)
    \/ ~validauth(buf, rq.buf.auth, ServerSecret)
    \/ fault \in {"badattrs", "badmsgauth"}
    \/ /\ rq.buf.code # "Status-Server"
       /\ \/ rq.from = NULL
          \/ fault = "mppefail"
          \/ rq.origusername /\ fault = "nouser"

\* the mutant of the branch for a probe: the slot is marked unsent as well
ProbeAnsweredUnsent(rq) == [rq EXCEPT !.received = TRUE, !.tries = 0]

\* if (*rq->buf == RAD_Status_Server) rq->received = 1
ProbeAnswered(rq) == [rq EXCEPT !.received = TRUE]

\* the mutant of the reset: the count of lost probes stays
LostAfterReplyKept(n) == n

\* line 1864: server->loststatsrv = 0
LostAfterReply(n) == 0

replyh(buf, fault) ==
    LET rq == requests[buf.id] IN
    /\ srvconf.type = "T" => wr.pc # "start"
    /\ connectionok' = TRUE
    /\ loststatsrv' = LostAfterReply(loststatsrv)
    /\ IF buf.code \notin ReplyCodes \/ ReplyDropped(buf, fault, rq)
       THEN UNCHANGED <<requests, replyq>>
       ELSE IF rq.buf.code = "Status-Server"
       THEN /\ requests' = [requests EXCEPT ![buf.id] = ProbeAnswered(@)]
            /\ UNCHANGED replyq
       ELSE /\ Len(replyq[rq.from]) < MaxQ
            /\ requests' = [requests EXCEPT ![buf.id].received = TRUE,
                                            ![buf.id].nfwd = @ + 1]
            /\ replyq' = sendreply(replyq, rq.from, Restored(buf, rq),
                                   ReplyAddr(rq.from, rq.fromsa), rq.hist, "replyh")
    /\ UNCHANGED <<clock, srvconf, nextid, newrq, wr, nrq, lastfree>>

\* udpclientrd / tlsclientrd: a packet from the server
ClientRd == \E p \in ReplyPackets : replyh(p.buf, p.fault)

(***************************************************************************)
(* udpserverwr and tlsserverwr: take the first reply of the queue and send *)
(* it.                                                                     *)
(***************************************************************************)
UdpServerWr ==
    /\ replyq["cu"] # <<>>
    /\ replyq' = [replyq EXCEPT !["cu"] = Tail(@)]
    /\ UNCHANGED <<clock, srvconf, requests, nextid, newrq, connectionok,
                   loststatsrv, wr, nrq, lastfree>>

TlsServerWr ==
    /\ replyq["ct"] # <<>>
    /\ replyq' = [replyq EXCEPT !["ct"] = Tail(@)]
    /\ UNCHANGED <<clock, srvconf, requests, nextid, newrq, connectionok,
                   loststatsrv, wr, nrq, lastfree>>

(***************************************************************************)
(* clientwr, the writer thread of the server. wr.pc is its position:       *)
(*   start   before the loop (lines 2078-2097)                             *)
(*   top     at pthread_mutex_lock at the head of the loop                 *)
(*   wait    inside pthread_cond_wait / pthread_cond_timedwait             *)
(*   scan    at the head of the for loop over the table, with index wr.i   *)
(*   send    after the unlock of line 2170, before the update of slot wr.i *)
(*   status  after the for loop, at the Status-Server test                 *)
(* wr.lastsend is kept only when StatusServer is on (it is read nowhere    *)
(* else), wr.now only between the test of the expiry and the update that   *)
(* uses it, wr.i only inside the for loop.                                 *)
(***************************************************************************)
\* the values of rnd / 32 (0 .. 7) the model draws
Rnds == {0, 7}

\* the number of transmissions after which an expired request is removed
MaxTries(rq) ==
    IF rq.buf.code = "Status-Server" \/ srvconf.type = "T" THEN 1 ELSE REQUEST_RETRIES

\* the seconds a transmission is given before the next check
ExpiryPeriod(rq) ==
    IF rq.buf.code = "Status-Server" \/ srvconf.type = "T"
    THEN REQUEST_EXPIRY ELSE REQUEST_EXPIRY \div REQUEST_RETRIES

\* the mutant of the deadline: the timeout is left as it is
EarlierTimeoutKept(timeout, t) == timeout

\* if (!timeout.tv_sec || t < timeout.tv_sec) timeout.tv_sec = t
EarlierTimeout(timeout, t) == IF timeout = 0 \/ t < timeout THEN t ELSE timeout

WrStart ==
    /\ wr.pc = "start"
    /\ wr' = [wr EXCEPT !.pc = "top", !.timeout = 0,
                        !.lastsend = IF srvconf.statusserver THEN clock ELSE @]
    /\ connectionok' = TRUE
    /\ UNCHANGED <<clock, srvconf, requests, nextid, newrq, loststatsrv,
                   replyq, nrq, lastfree>>

\* the mutant of the test of the flag: the writer waits whatever the flag
MustWaitAlways(flag) == TRUE

\* line 2102: if (!server->newrq), with the mutex held
MustWait(flag) == ~flag

\* lines 2100-2124 up to the wait: newrq set, or the wait is entered with the
\* timeout of the last scan, limited by the next Status-Server time
WrTop ==
    /\ wr.pc = "top"
    /\ IF ~MustWait(newrq)
       THEN /\ newrq' = FALSE
            /\ wr' = [wr EXCEPT !.pc = "scan", !.i = 0]
       ELSE /\ \E rnd \in Rnds :
                wr' = [wr EXCEPT
                          !.pc = "wait",
                          !.timeout =
                              IF srvconf.statusserver
                              THEN EarlierTimeout(@, wr.lastsend + STATUS_SERVER_PERIOD + rnd)
                              ELSE @]
            /\ UNCHANGED newrq
    /\ UNCHANGED <<clock, srvconf, requests, nextid, connectionok, loststatsrv,
                   replyq, nrq, lastfree>>

\* the wait returns, with the mutex held: lines 2113, 2119-2124
WrLeaveWait ==
    /\ newrq' = FALSE
    /\ wr' = [wr EXCEPT !.pc = "scan", !.i = 0, !.timeout = 0]
    /\ UNCHANGED <<clock, srvconf, requests, nextid, connectionok, loststatsrv,
                   replyq, nrq, lastfree>>

\* woken by sendrq's pthread_cond_signal, or the timed wait ran out
WrWake ==
    /\ wr.pc = "wait"
    /\ newrq \/ (wr.timeout # 0 /\ clock >= wr.timeout)
    /\ WrLeaveWait

\* a spurious wakeup, which pthread_cond_wait permits
WrSpuriousWake ==
    /\ wr.pc = "wait"
    /\ ~newrq /\ ~(wr.timeout # 0 /\ clock >= wr.timeout)
    /\ WrLeaveWait

InUseFrom(i) == {j \in SlotIds : j >= i /\ InUse(j)}

\* the mutant of the removal test: an expired request is sent once more
RemoveExpiredLate(rq) == rq.tries = MaxTries(rq) + 1

\* line 2156: the request has had all its transmissions
RemoveExpired(rq) == rq.tries = MaxTries(rq)

\* one pass of the for loop under the mutex (lines 2126-2170): skip the free
\* slots, then free the slot, leave it waiting, or go on to send it
WrScan ==
    /\ wr.pc = "scan"
    /\ IF InUseFrom(wr.i) = {}
       THEN /\ wr' = [wr EXCEPT !.pc = "status", !.i = 0]
            /\ UNCHANGED <<requests, loststatsrv, lastfree>>
       ELSE LET i == SetMin(InUseFrom(wr.i))
                rq == requests[i]
            IN  IF rq.received
                THEN /\ requests' = [requests EXCEPT ![i] = Freed(rq)]
                     /\ lastfree' = "received"
                     /\ wr' = [wr EXCEPT !.i = i + 1]
                     /\ UNCHANGED loststatsrv
                ELSE IF clock < rq.expiry
                THEN /\ wr' = [wr EXCEPT !.i = i + 1,
                                         !.timeout = EarlierTimeout(@, rq.expiry)]
                     /\ UNCHANGED <<requests, loststatsrv, lastfree>>
                ELSE IF RemoveExpired(rq)
                THEN /\ requests' = [requests EXCEPT ![i] = Freed(rq)]
                     /\ lastfree' = "expired"
                     /\ loststatsrv' =
                            IF rq.buf.code = "Status-Server" /\ loststatsrv < 255
                            THEN loststatsrv + 1 ELSE loststatsrv
                     /\ wr' = [wr EXCEPT !.i = i + 1]
                ELSE /\ wr' = [wr EXCEPT !.pc = "send", !.i = i, !.now = clock]
                     /\ UNCHANGED <<requests, loststatsrv, lastfree>>
    /\ UNCHANGED <<clock, srvconf, nextid, newrq, connectionok, replyq, nrq>>

\* the mutant of the new expiry: the next transmission is due at once
NewExpiryNow(rq, now) == now

\* line 2172: rq->expiry.tv_sec = now.tv_sec + ...
NewExpiry(rq, now) == now + ExpiryPeriod(rq)

\* lines 2172-2179, outside the mutex: new expiry, one more try, clientradput
\* (which sets connectionok on a TLS server), lastsend
WrSend ==
    /\ wr.pc = "send"
    /\ LET rq == requests[wr.i] IN
        /\ requests' = [requests EXCEPT
                           ![wr.i].expiry = NewExpiry(rq, wr.now),
                           ![wr.i].tries = rq.tries + 1,
                           ![wr.i].lastsent = wr.now]
        /\ wr' = [wr EXCEPT !.pc = "scan", !.i = wr.i + 1, !.now = 0,
                            !.timeout = EarlierTimeout(@, NewExpiry(rq, wr.now)),
                            !.lastsend = IF srvconf.statusserver THEN clock ELSE @]
    /\ connectionok' = IF srvconf.type = "T" THEN TRUE ELSE connectionok
    /\ UNCHANGED <<clock, srvconf, nextid, newrq, loststatsrv, replyq, nrq,
                   lastfree>>

\* lines 2181-2198: a Status-Server probe when nothing was sent for a period
WrStatusWith(auths) ==
    /\ wr.pc = "status"
    /\ IF srvconf.statusserver /\ clock - wr.lastsend >= STATUS_SERVER_PERIOD
       THEN \E newauth \in auths :
              /\ wr' = [wr EXCEPT !.pc = "top", !.lastsend = clock]
              /\ sendrq([ZeroRequest EXCEPT
                             !.buf = [code |-> "Status-Server", id |-> 0,
                                      auth |-> newauth]])
       ELSE /\ wr' = [wr EXCEPT !.pc = "top"]
            /\ UNCHANGED <<requests, nextid, newrq>>
    /\ UNCHANGED <<clock, srvconf, connectionok, loststatsrv, replyq, nrq,
                   lastfree>>

WrStatus == WrStatusWith(NewAuths)

\* time passes
TickBy(step, last) ==
    /\ clock + step <= last
    /\ clock' = clock + step
    /\ UNCHANGED <<srvconf, requests, nextid, newrq, connectionok, loststatsrv,
                   wr, replyq, nrq, lastfree>>

Tick == TickBy(TickStep, MaxTime)

(***************************************************************************)
(* The specification of the request table: every kind of request and       *)
(* reply, the clock observed every TickStep seconds.                       *)
(***************************************************************************)
InitTable(confs) ==
    /\ clock = 0
    /\ srvconf \in confs
    /\ requests = [i \in SlotIds |-> ZeroRequest]
    /\ nextid = 0
    /\ newrq = FALSE
    /\ connectionok = FALSE
    /\ loststatsrv = 0
    /\ wr = [pc |-> "start", i |-> 0, now |-> 0, timeout |-> 0, lastsend |-> 0]
    /\ replyq = [c \in Clients |-> <<>>]
    /\ nrq = 0
    /\ lastfree = "none"

\* no inbound TLS connection is modelled
NoCert == [cn |-> <<>>, san |-> <<>>]

IncOff ==
    [pc |-> "off", addr |-> <<>>, conf |-> 0, ssl |-> "none", cert |-> NoCert,
     chainok |-> FALSE, verified |-> -1, writer |-> FALSE, served |-> FALSE,
     nradsrv |-> 0, wpc |-> "off"]

InOff == clconfs = <<>> /\ inc = IncOff

\* the TLS upstream as addserver leaves it, lines 521-532: no session, the
\* lock free, lastconnecttry zero
NoWhen == -1

NoSsl ==
    [id |-> 0, state |-> "null", cert |-> NoCert, chainok |-> FALSE,
     alive |-> FALSE, verified |-> FALSE, by |-> "none"]

ServerOff ==
    [ssl |-> NoSsl, lock |-> "none", lastconnecttry |-> 0, fresh |-> FALSE,
     attempts |-> 0]

ThreadOff == [pc |-> "off", when |-> NoWhen, text |-> "", ssl |-> 0, n |-> 0]

\* no TLS upstream session is modelled
TlsOff ==
    /\ server = ServerOff
    /\ th = [t \in {"wr", "rd"} |-> ThreadOff]
    /\ sent = {}

\* no realm with several servers is modelled
RealmOff == srvconfs = <<>> /\ routed = [to |-> 0, n |-> 0]

\* nothing is logged yet
LogOff == lastlog = ""

\* the history of the reply queues is not kept
QOff == qhist = <<>>

\* no packet primitive is at work
WorkOff == work = [op |-> "none"]

Init ==
    /\ InitTable([type : {"U", "T"}, statusserver : BOOLEAN])
    /\ InOff
    /\ TlsOff
    /\ RealmOff
    /\ LogOff
    /\ QOff
    /\ WorkOff

Next ==
    \/ UdpServerRd /\ UNCHANGED <<inVars, tlsVars, realmVars, lastlog, qhist, work>>
    \/ TlsServerRd /\ UNCHANGED <<inVars, tlsVars, realmVars, lastlog, qhist, work>>
    \/ ClientRd /\ UNCHANGED <<inVars, tlsVars, realmVars, lastlog, qhist, work>>
    \/ UdpServerWr /\ UNCHANGED <<inVars, tlsVars, realmVars, lastlog, qhist, work>>
    \/ TlsServerWr /\ UNCHANGED <<inVars, tlsVars, realmVars, lastlog, qhist, work>>
    \/ WrStart /\ UNCHANGED <<inVars, tlsVars, realmVars, lastlog, qhist, work>>
    \/ WrTop /\ UNCHANGED <<inVars, tlsVars, realmVars, lastlog, qhist, work>>
    \/ WrWake /\ UNCHANGED <<inVars, tlsVars, realmVars, lastlog, qhist, work>>
    \/ WrSpuriousWake /\ UNCHANGED <<inVars, tlsVars, realmVars, lastlog, qhist, work>>
    \/ WrScan /\ UNCHANGED <<inVars, tlsVars, realmVars, lastlog, qhist, work>>
    \/ WrSend /\ UNCHANGED <<inVars, tlsVars, realmVars, lastlog, qhist, work>>
    \/ WrStatus /\ UNCHANGED <<inVars, tlsVars, realmVars, lastlog, qhist, work>>
    \/ Tick /\ UNCHANGED <<inVars, tlsVars, realmVars, lastlog, qhist, work>>

Spec == Init /\ [][Next]_vars

(***************************************************************************)
(* The specification of the timers: the same server, writer and reply      *)
(* handler, the clock observed every TimeStep seconds, and one kind of     *)
(* request (the UDP client's first datagram) and of reply.                 *)
(***************************************************************************)
TimedRequestPackets ==
    {p \in RequestPackets :
        /\ p.snd = [from |-> "cu", fromsa |-> "a1", id |-> 7, auth |-> "o1",
                    rewritten |-> FALSE]
        /\ p.code = "Access-Request" /\ p.fault = "ok"}

TimedReplyPackets ==
    {p \in ReplyPackets :
        p.buf.code = "Access-Accept" /\ p.buf.auth.over = "n1" /\ p.fault = "ok"}

UdpServerRdT ==
    /\ nrq < TimeRq
    /\ \E p \in TimedRequestPackets : radsrv("cu", p.snd.fromsa, p, "n1")

ClientRdT == \E p \in TimedReplyPackets : replyh(p.buf, p.fault)

TickT == TickBy(TimeStep, TimeMax)

NextTime ==
    \/ UdpServerRdT /\ UNCHANGED <<inVars, tlsVars, realmVars, lastlog, qhist, work>>
    \/ ClientRdT /\ UNCHANGED <<inVars, tlsVars, realmVars, lastlog, qhist, work>>
    \/ UdpServerWr /\ UNCHANGED <<inVars, tlsVars, realmVars, lastlog, qhist, work>>
    \/ WrStart /\ UNCHANGED <<inVars, tlsVars, realmVars, lastlog, qhist, work>>
    \/ WrTop /\ UNCHANGED <<inVars, tlsVars, realmVars, lastlog, qhist, work>>
    \/ WrWake /\ UNCHANGED <<inVars, tlsVars, realmVars, lastlog, qhist, work>>
    \/ WrSpuriousWake /\ UNCHANGED <<inVars, tlsVars, realmVars, lastlog, qhist, work>>
    \/ WrScan /\ UNCHANGED <<inVars, tlsVars, realmVars, lastlog, qhist, work>>
    \/ WrSend /\ UNCHANGED <<inVars, tlsVars, realmVars, lastlog, qhist, work>>
    \/ WrStatus /\ UNCHANGED <<inVars, tlsVars, realmVars, lastlog, qhist, work>>
    \/ TickT /\ UNCHANGED <<inVars, tlsVars, realmVars, lastlog, qhist, work>>

SpecTime == Init /\ [][NextTime]_vars

(***************************************************************************)
(* SpecReply: the reply handler with its log. The server is reached over   *)
(* UDP, the UDP client sends two Access-Requests, of which the second had  *)
(* its User-Name rewritten, and the server sends every packet of           *)
(* ReplyPackets; lastlog is the last line replyh logged.                   *)
(***************************************************************************)
\* the line replyh logs last for a packet, lines 1867-2029
ReplyhLog(buf, fault, rq) ==
    IF buf.code \notin ReplyCodes
    THEN "replyh: discarding, only accept access accept, access reject and access challenge messages"
    ELSE IF rq.buf = NullBuf \/ rq.tries = 0
    THEN "replyh: no matching request sent with this id, ignoring reply"
    ELSE IF AlreadyReceived(rq)
    THEN "replyh: already received, ignoring reply"
    ELSE IF ~validauth(buf, rq.buf.auth, ServerSecret)
    THEN "replyh: invalid auth, ignoring reply"
    ELSE IF fault = "badattrs"
    THEN "replyh: attribute validation failed, ignoring reply"
    ELSE IF fault = "badmsgauth"
    THEN "replyh: message authentication failed, ignoring reply"
    ELSE IF rq.buf.code = "Status-Server"
    THEN "replyh: got status server response"
    ELSE IF rq.from = NULL
    THEN "replyh: client gone, ignoring reply"
    ELSE IF fault = "mppefail"
    THEN "replyh: MS attribute handling failed, ignoring reply"
    ELSE IF rq.origusername /\ fault = "nouser"
    THEN "replyh: malloc failed, ignoring reply"
    ELSE "replyh: giving packet back to where it came from"

LoggedRequestPackets ==
    {p \in RequestPackets :
        /\ p.snd.from = "cu" /\ p.snd.fromsa = "a1"
        /\ p.code = "Access-Request" /\ p.fault = "ok"}

UdpServerRdL ==
    \E p \in LoggedRequestPackets : radsrv("cu", p.snd.fromsa, p, "n1")

\* udpclientrd: a packet from the server, handed to replyh
ClientRdL ==
    \E p \in ReplyPackets :
        /\ replyh(p.buf, p.fault)
        /\ lastlog' = ReplyhLog(p.buf, p.fault, requests[p.buf.id])

InitReply ==
    /\ InitTable([type : {"U"}, statusserver : BOOLEAN])
    /\ InOff
    /\ TlsOff
    /\ RealmOff
    /\ LogOff
    /\ QOff
    /\ WorkOff

NextReply ==
    \/ UdpServerRdL /\ UNCHANGED <<inVars, tlsVars, realmVars, lastlog, qhist, work>>
    \/ ClientRdL /\ UNCHANGED <<inVars, tlsVars, realmVars, qhist, work>>
    \/ UdpServerWr /\ UNCHANGED <<inVars, tlsVars, realmVars, lastlog, qhist, work>>
    \/ WrStart /\ UNCHANGED <<inVars, tlsVars, realmVars, lastlog, qhist, work>>
    \/ WrTop /\ UNCHANGED <<inVars, tlsVars, realmVars, lastlog, qhist, work>>
    \/ WrWake /\ UNCHANGED <<inVars, tlsVars, realmVars, lastlog, qhist, work>>
    \/ WrSpuriousWake /\ UNCHANGED <<inVars, tlsVars, realmVars, lastlog, qhist, work>>
    \/ WrScan /\ UNCHANGED <<inVars, tlsVars, realmVars, lastlog, qhist, work>>
    \/ WrSend /\ UNCHANGED <<inVars, tlsVars, realmVars, lastlog, qhist, work>>
    \/ WrStatus /\ UNCHANGED <<inVars, tlsVars, realmVars, lastlog, qhist, work>>
    \/ Tick /\ UNCHANGED <<inVars, tlsVars, realmVars, lastlog, qhist, work>>

SpecReply == InitReply /\ [][NextReply]_vars

(***************************************************************************)
(* SpecDead: a server with StatusServer that no client's request is sent   *)
(* to. The writer sends its probes, which expire unless answered, and the  *)
(* server sends a packet of a code replyh does not take, a reply with the  *)
(* authenticator of the probe and one whose signature is not the server's; *)
(* the clock is observed every TimeStep seconds.                           *)
(***************************************************************************)
DeadReplyPackets ==
    {p \in ReplyPackets : p.fault = "ok" /\ p.buf.auth.over = "n1" /\ p.buf.id = 0}

ClientRdD ==
    \E p \in DeadReplyPackets :
        /\ replyh(p.buf, p.fault)
        /\ lastlog' = ReplyhLog(p.buf, p.fault, requests[p.buf.id])

InitDead ==
    /\ InitTable([type : {"U", "T"}, statusserver : {TRUE}])
    /\ InOff
    /\ TlsOff
    /\ RealmOff
    /\ LogOff
    /\ QOff
    /\ WorkOff

NextDead ==
    \/ ClientRdD /\ UNCHANGED <<inVars, tlsVars, realmVars, qhist, work>>
    \/ WrStart /\ UNCHANGED <<inVars, tlsVars, realmVars, lastlog, qhist, work>>
    \/ WrTop /\ UNCHANGED <<inVars, tlsVars, realmVars, lastlog, qhist, work>>
    \/ WrWake /\ UNCHANGED <<inVars, tlsVars, realmVars, lastlog, qhist, work>>
    \/ WrSpuriousWake /\ UNCHANGED <<inVars, tlsVars, realmVars, lastlog, qhist, work>>
    \/ WrScan /\ UNCHANGED <<inVars, tlsVars, realmVars, lastlog, qhist, work>>
    \/ WrSend /\ UNCHANGED <<inVars, tlsVars, realmVars, lastlog, qhist, work>>
    \/ WrStatus /\ UNCHANGED <<inVars, tlsVars, realmVars, lastlog, qhist, work>>
    \/ TickT /\ UNCHANGED <<inVars, tlsVars, realmVars, lastlog, qhist, work>>

SpecDead == InitDead /\ [][NextDead]_vars

(***************************************************************************)
(* SpecWake: sendrq and the writer's wait, with the condition variable     *)
(* newrq_cond. work.woken says that pthread_cond_signal was called while   *)
(* the writer was inside its wait: only then, when the timed wait runs     *)
(* out, or spuriously, does the wait return. The server is reached over    *)
(* UDP and the UDP client sends two Access-Requests.                       *)
(***************************************************************************)
\* sendrq, lines 1112-1116: the signal reaches the writer if it waits
Signalled ==
    work' = [work EXCEPT !.woken = @ \/ (wr.pc = "wait" /\ ~newrq /\ newrq')]

UdpServerRdW ==
    /\ \E p \in LoggedRequestPackets : radsrv("cu", p.snd.fromsa, p, "n1")
    /\ Signalled

\* the writer enters its wait, or goes on without it
WrTopW == WrTop /\ work' = [work EXCEPT !.woken = FALSE]

\* the wait returns after a signal, or the timed wait ran out
WrWakeW ==
    /\ wr.pc = "wait"
    /\ work.woken \/ (wr.timeout # 0 /\ clock >= wr.timeout)
    /\ WrLeaveWait
    /\ work' = [work EXCEPT !.woken = FALSE]

\* a spurious wakeup
WrSpuriousWakeW ==
    /\ wr.pc = "wait"
    /\ ~work.woken /\ ~(wr.timeout # 0 /\ clock >= wr.timeout)
    /\ WrLeaveWait
    /\ UNCHANGED work

\* the writer's own sendrq of a probe signals while the writer does not wait
WrStatusW == WrStatus /\ Signalled

InitWake ==
    /\ InitTable([type : {"U"}, statusserver : BOOLEAN])
    /\ InOff
    /\ TlsOff
    /\ RealmOff
    /\ LogOff
    /\ QOff
    /\ work = [op |-> "cond", woken |-> FALSE]

NextWake ==
    \/ UdpServerRdW /\ UNCHANGED <<inVars, tlsVars, realmVars, lastlog, qhist>>
    \/ ClientRdT /\ UNCHANGED <<inVars, tlsVars, realmVars, lastlog, qhist, work>>
    \/ UdpServerWr /\ UNCHANGED <<inVars, tlsVars, realmVars, lastlog, qhist, work>>
    \/ WrStart /\ UNCHANGED <<inVars, tlsVars, realmVars, lastlog, qhist, work>>
    \/ WrTopW /\ UNCHANGED <<inVars, tlsVars, realmVars, lastlog, qhist>>
    \/ WrWakeW /\ UNCHANGED <<inVars, tlsVars, realmVars, lastlog, qhist>>
    \/ WrSpuriousWakeW /\ UNCHANGED <<inVars, tlsVars, realmVars, lastlog, qhist>>
    \/ WrScan /\ UNCHANGED <<inVars, tlsVars, realmVars, lastlog, qhist, work>>
    \/ WrSend /\ UNCHANGED <<inVars, tlsVars, realmVars, lastlog, qhist, work>>
    \/ WrStatusW /\ UNCHANGED <<inVars, tlsVars, realmVars, lastlog, qhist>>
    \/ Tick /\ UNCHANGED <<inVars, tlsVars, realmVars, lastlog, qhist, work>>

\* The writer thread is scheduled: each of its steps that stays possible is
\* taken. Nothing is assumed about the clients, the server, the clock or
\* spurious wakeups.
SpecWake ==
    /\ InitWake /\ [][NextWake]_vars
    /\ WF_vars(WrStart /\ UNCHANGED <<inVars, tlsVars, realmVars, lastlog, qhist, work>>)
    /\ WF_vars(WrTopW /\ UNCHANGED <<inVars, tlsVars, realmVars, lastlog, qhist>>)
    /\ WF_vars(WrWakeW /\ UNCHANGED <<inVars, tlsVars, realmVars, lastlog, qhist>>)
    /\ WF_vars(WrScan /\ UNCHANGED <<inVars, tlsVars, realmVars, lastlog, qhist, work>>)
    /\ WF_vars(WrSend /\ UNCHANGED <<inVars, tlsVars, realmVars, lastlog, qhist, work>>)
    /\ WF_vars(WrStatusW /\ UNCHANGED <<inVars, tlsVars, realmVars, lastlog, qhist>>)

(***************************************************************************)
(* SpecFree: the life of a slot, from sendrq to the writer freeing it,     *)
(* with a server reached over UDP or over TLS. work.up says that the TLS   *)
(* session to the server is up: clientwr's first tlsconnect and the        *)
(* SSL_write of clientradput return only then, and until then the writer   *)
(* is inside tlsconnect, which tries again and again. The writer is fast:  *)
(* the clock is observed every TimeStep seconds, and only while the writer *)
(* sits in its wait with nothing due or inside tlsconnect.                 *)
(***************************************************************************)
\* the seconds within which a slot is freed when the writer is not held up:
\* REQUEST_RETRIES transmissions, each followed by the first observation of
\* the clock that is not before its expiry
FreeWithin == 30

\* clientwr is inside tlsconnect: the first connection (2093) or clientradput
\* after a failed SSL_write (933-937)
InTlsConnect ==
    /\ srvconf.type = "T"
    /\ ~work.up
    /\ wr.pc \in {"start", "send"}

\* clientwr, lines 2090-2097: for TLS tlsconnect has returned
WrStartF ==
    /\ srvconf.type = "T" => work.up
    /\ WrStart
    /\ UNCHANGED work

\* clientwr, lines 2172-2179: for TLS the SSL_write of clientradput succeeded
WrSendF ==
    /\ srvconf.type = "T" => work.up
    /\ WrSend
    /\ UNCHANGED work

\* one pass of the loop of tlsconnect, lines 824-863: the connection is made
\* or is not
TlsConnectTry ==
    /\ InTlsConnect
    /\ \E ok \in BOOLEAN : work' = [work EXCEPT !.up = ok]
    /\ connectionok' = FALSE
    /\ UNCHANGED <<clock, srvconf, requests, nextid, newrq, loststatsrv, wr,
                   replyq, nrq, lastfree>>

\* the server closes the session
LinkDown ==
    /\ srvconf.type = "T"
    /\ work.up
    /\ work' = [work EXCEPT !.up = FALSE]
    /\ UNCHANGED coreVars

\* tlsclientrd and udpclientrd: a reply, over TLS on a session that is up
ClientRdF ==
    /\ srvconf.type = "T" => work.up
    /\ ClientRdT
    /\ UNCHANGED work

\* the writer waits and nothing is due, or it is inside tlsconnect
Quiet ==
    \/ /\ wr.pc = "wait"
       /\ ~newrq
       /\ ~(wr.timeout # 0 /\ clock >= wr.timeout)
    \/ InTlsConnect

TickF ==
    /\ Quiet
    /\ TickT
    /\ UNCHANGED work

InitFree ==
    /\ InitTable([type : {"U", "T"}, statusserver : BOOLEAN])
    /\ InOff
    /\ TlsOff
    /\ RealmOff
    /\ LogOff
    /\ QOff
    /\ work = [op |-> "link", up |-> FALSE]

NextFree ==
    \/ UdpServerRdT /\ UNCHANGED <<inVars, tlsVars, realmVars, lastlog, qhist, work>>
    \/ ClientRdF /\ UNCHANGED <<inVars, tlsVars, realmVars, lastlog, qhist>>
    \/ UdpServerWr /\ UNCHANGED <<inVars, tlsVars, realmVars, lastlog, qhist, work>>
    \/ WrStartF /\ UNCHANGED <<inVars, tlsVars, realmVars, lastlog, qhist>>
    \/ WrTop /\ UNCHANGED <<inVars, tlsVars, realmVars, lastlog, qhist, work>>
    \/ WrWake /\ UNCHANGED <<inVars, tlsVars, realmVars, lastlog, qhist, work>>
    \/ WrScan /\ UNCHANGED <<inVars, tlsVars, realmVars, lastlog, qhist, work>>
    \/ WrSendF /\ UNCHANGED <<inVars, tlsVars, realmVars, lastlog, qhist>>
    \/ WrStatus /\ UNCHANGED <<inVars, tlsVars, realmVars, lastlog, qhist, work>>
    \/ TlsConnectTry /\ UNCHANGED <<inVars, tlsVars, realmVars, lastlog, qhist>>
    \/ LinkDown /\ UNCHANGED <<inVars, tlsVars, realmVars, lastlog, qhist>>
    \/ TickF /\ UNCHANGED <<inVars, tlsVars, realmVars, lastlog, qhist>>

\* The writer thread is scheduled, inside tlsconnect as well, and time
\* passes. Nothing is assumed about the clients and the server: whether a
\* connection attempt succeeds is the server's choice each time.
SpecFree ==
    /\ InitFree /\ [][NextFree]_vars
    /\ WF_vars(WrStartF /\ UNCHANGED <<inVars, tlsVars, realmVars, lastlog, qhist>>)
    /\ WF_vars(WrTop /\ UNCHANGED <<inVars, tlsVars, realmVars, lastlog, qhist, work>>)
    /\ WF_vars(WrWake /\ UNCHANGED <<inVars, tlsVars, realmVars, lastlog, qhist, work>>)
    /\ WF_vars(WrScan /\ UNCHANGED <<inVars, tlsVars, realmVars, lastlog, qhist, work>>)
    /\ WF_vars(WrSendF /\ UNCHANGED <<inVars, tlsVars, realmVars, lastlog, qhist>>)
    /\ WF_vars(WrStatus /\ UNCHANGED <<inVars, tlsVars, realmVars, lastlog, qhist, work>>)
    /\ WF_vars(TlsConnectTry /\ UNCHANGED <<inVars, tlsVars, realmVars, lastlog, qhist>>)
    /\ WF_vars(TickF /\ UNCHANGED <<inVars, tlsVars, realmVars, lastlog, qhist>>)

(***************************************************************************)
(* SpecLate: a slot that is used again. The server is reached over UDP and *)
(* has StatusServer, the UDP client sends its first datagram twice, and    *)
(* the server sends replies whose digest is over any authenticator.        *)
(* RAND_bytes gives every forwarded request and every probe 16 random      *)
(* octets, which the model takes to be ones it has not given before;       *)
(* work.all is history: slot -> the authenticators of the requests stored  *)
(* in it so far.                                                           *)
(***************************************************************************)
\* the values of RAND_bytes
RandAuths == {"n1", "n2", "n3"}

\* the values RAND_bytes has not returned yet
FreshAuths == RandAuths \ UNION {work.all[i] : i \in SlotIds}

\* the authenticators of the requests now stored join the history
Stored ==
    work' = [work EXCEPT
                !.all = [i \in SlotIds |->
                            IF requests'[i].buf # NullBuf
                            THEN @[i] \cup {requests'[i].buf.auth}
                            ELSE @[i]]]

UdpServerRdLate ==
    /\ \E p \in TimedRequestPackets, newauth \in FreshAuths :
          radsrv("cu", p.snd.fromsa, p, newauth)
    /\ Stored

WrStatusLate == WrStatusWith(FreshAuths) /\ Stored

\* replies with the server's signature over every authenticator
LateReplyPackets ==
    [buf : [code : {"Access-Accept"}, id : SlotIds,
            auth : [over : RandAuths, sec : {ServerSecret}]],
     fault : {"ok"}]

ClientRdLate == \E p \in LateReplyPackets : replyh(p.buf, p.fault)

\* the clock is read again once the writer is back in its wait with nothing
\* due: the writer's pass takes no time
TickLate ==
    /\ wr.pc = "wait"
    /\ ~newrq
    /\ ~(wr.timeout # 0 /\ clock >= wr.timeout)
    /\ TickT

InitLate ==
    /\ InitTable([type : {"U"}, statusserver : {TRUE}])
    /\ InOff
    /\ TlsOff
    /\ RealmOff
    /\ LogOff
    /\ QOff
    /\ work = [op |-> "rand", all |-> [i \in SlotIds |-> {}]]

NextLate ==
    \/ UdpServerRdLate /\ UNCHANGED <<inVars, tlsVars, realmVars, lastlog, qhist>>
    \/ ClientRdLate /\ UNCHANGED <<inVars, tlsVars, realmVars, lastlog, qhist, work>>
    \/ UdpServerWr /\ UNCHANGED <<inVars, tlsVars, realmVars, lastlog, qhist, work>>
    \/ WrStart /\ UNCHANGED <<inVars, tlsVars, realmVars, lastlog, qhist, work>>
    \/ WrTop /\ UNCHANGED <<inVars, tlsVars, realmVars, lastlog, qhist, work>>
    \/ WrWake /\ UNCHANGED <<inVars, tlsVars, realmVars, lastlog, qhist, work>>
    \/ WrScan /\ UNCHANGED <<inVars, tlsVars, realmVars, lastlog, qhist, work>>
    \/ WrSend /\ UNCHANGED <<inVars, tlsVars, realmVars, lastlog, qhist, work>>
    \/ WrStatusLate /\ UNCHANGED <<inVars, tlsVars, realmVars, lastlog, qhist>>
    \/ TickLate /\ UNCHANGED <<inVars, tlsVars, realmVars, lastlog, qhist, work>>

SpecLate == InitLate /\ [][NextLate]_vars

(***************************************************************************)
(* The specification of the intake: requests of every code, with every     *)
(* fault and for every realm, and datagrams from an address no client      *)
(* configuration matches; the server, its writer and its replies as in the *)
(* specification of the timers, within one second of the clock. lastlog is *)
(* the line the proxy logged last about a request it did not forward.      *)
(***************************************************************************)
\* a source address that matches no client configuration
UnknownAddr == "ax"

\* radudpget on the listening socket: find_conf('U', from, clconfs, NULL) and
\* the client of the configuration found, NULL when none matches
UdpPeer(addr) == IF addr \in SrcAddrs THEN "cu" ELSE NULL

\* the packets of the intake: the first datagram of the UDP client as an
\* Access-Request with every fault and for every realm, as an
\* Accounting-Request with and without a realm for its User-Name, and with
\* the other codes; of the TLS client an Access-Request for every realm, one
\* with a wrong Message-Authenticator, and an Accounting-Request
IntakePackets ==
    {p \in AllRequestPackets :
        /\ p.snd.id = 7 /\ p.snd.auth = "o1"
        /\ p.snd.from = "cu" => p.snd.fromsa = "a1"
        /\ p.realm # "r1" => p.code = "Access-Request" /\ p.fault = "ok"
        /\ p.code = "Accounting-Request" => p.fault \in {"ok", "norealm"}
        /\ p.code \in {"Status-Server", "Other"} => p.fault = "ok"
        /\ p.snd.from = "ct"
              => \/ p.code = "Access-Request" /\ p.fault \in {"ok", "badmsgauth"}
                 \/ p.code = "Accounting-Request" /\ p.fault = "norealm"}

\* The line radsrv and the functions it calls log last for a request, of
\* the lines of level DBG_INFO and above; lastlog when they log none.
RadsrvLog(from, p) ==
    LET to == realm2server(RealmServers(p.realm)) IN
    IF UnsupportedCode(p.code)
    THEN "radsrv: server currently accepts only access-requests, accounting-requests and status-server, ignoring"
    ELSE IF p.fault = "badattrs"
    THEN "radsrv: attribute validation failed, ignoring packet"
    ELSE IF p.fault = "badmsgauth"
    THEN "radsrv: message authentication failed"
    ELSE IF p.code = "Accounting-Request"
    THEN IF p.fault = "nouser"
         THEN "acclog: accounting-request without username attribute"
         ELSE "acclog: accounting-request with username"
    ELSE IF p.code = "Status-Server"
    THEN lastlog
    ELSE IF p.fault = "nouser"
    THEN "radsrv: ignoring request, no username attribute"
    ELSE IF p.fault = "norealm"
    THEN "radsrv: ignoring request, don't know where to send it"
    ELSE IF to # 0 /\ rqinqueue(from, p.snd.id)
    THEN "radsrv: already got request, ignoring"
    ELSE IF to = 0
    THEN IF RealmMessage(p.realm) # NULL THEN "radsrv: sending reject" ELSE lastlog
    ELSE IF p.fault = "pwdfail"
    THEN "pwdrecrypt: cannot decrypt password"
    ELSE IF SlotForNewRq = MAX_REQUESTS
    THEN "No room in queue, dropping request"
    ELSE lastlog

\* udpserverrd: radudpget, then radsrv for a datagram of a known peer
UdpIntake(addr, p, newauth) ==
    /\ p.snd.from = "cu"
    /\ IF UdpPeer(addr) = NULL
       THEN /\ UNCHANGED coreVars
            /\ lastlog' = "radudpget: got packet from wrong or unknown UDP peer, ignoring"
       ELSE /\ radsrv(UdpPeer(addr), addr, p, newauth)
            /\ lastlog' = RadsrvLog(UdpPeer(addr), p)

\* tlsserverrd: radtlsget, then radsrv
TlsIntake(p, newauth) ==
    /\ p.snd.from = "ct"
    /\ radsrv("ct", NoAddr, p, newauth)
    /\ lastlog' = RadsrvLog("ct", p)

\* a datagram of the client, or a sound one from the unknown address
UdpServerRdAny ==
    \E p \in IntakePackets, newauth \in NewAuths :
        \/ UdpIntake(p.snd.fromsa, p, newauth)
        \/ /\ p.code = "Access-Request" /\ p.fault = "ok" /\ p.realm = "r1"
           /\ UdpIntake(UnknownAddr, p, newauth)

TlsServerRdAny ==
    \E p \in IntakePackets, newauth \in NewAuths : TlsIntake(p, newauth)

\* one server, reached over UDP and without StatusServer
InitRq ==
    /\ InitTable({[type |-> "U", statusserver |-> FALSE]})
    /\ InOff
    /\ TlsOff
    /\ RealmOff
    /\ LogOff
    /\ QOff
    /\ WorkOff

NextRq ==
    \/ UdpServerRdAny /\ UNCHANGED <<inVars, tlsVars, realmVars, qhist, work>>
    \/ TlsServerRdAny /\ UNCHANGED <<inVars, tlsVars, realmVars, qhist, work>>
    \/ ClientRdT /\ UNCHANGED <<inVars, tlsVars, realmVars, lastlog, qhist, work>>
    \/ UdpServerWr /\ UNCHANGED <<inVars, tlsVars, realmVars, lastlog, qhist, work>>
    \/ TlsServerWr /\ UNCHANGED <<inVars, tlsVars, realmVars, lastlog, qhist, work>>
    \/ WrStart /\ UNCHANGED <<inVars, tlsVars, realmVars, lastlog, qhist, work>>
    \/ WrTop /\ UNCHANGED <<inVars, tlsVars, realmVars, lastlog, qhist, work>>
    \/ WrWake /\ UNCHANGED <<inVars, tlsVars, realmVars, lastlog, qhist, work>>
    \/ WrSpuriousWake /\ UNCHANGED <<inVars, tlsVars, realmVars, lastlog, qhist, work>>
    \/ WrScan /\ UNCHANGED <<inVars, tlsVars, realmVars, lastlog, qhist, work>>
    \/ WrSend /\ UNCHANGED <<inVars, tlsVars, realmVars, lastlog, qhist, work>>
    \/ WrStatus /\ UNCHANGED <<inVars, tlsVars, realmVars, lastlog, qhist, work>>

SpecRq == InitRq /\ [][NextRq]_vars

(***************************************************************************)
(* Certificates and configurations. A string is a sequence of one-letter   *)
(* strings, an address a sequence of bytes. A certificate is               *)
(*   [cn  : the commonName entries of the subject, in order,               *)
(*    san : the subjectAltName entries [type, v], in order (empty: no      *)
(*          extension)]                                                    *)
(* and a client or server configuration                                    *)
(*   [type, host, addrinfo, prefixlen, certcnregex, certuriregex]          *)
(* where a regex is the set of the strings it matches (NoRegex when the    *)
(* option is not set).                                                     *)
(***************************************************************************)
DigitVal(c) ==
    CASE c = "0" -> 0 [] c = "1" -> 1 [] c = "2" -> 2 [] c = "3" -> 3
      [] c = "4" -> 4 [] c = "5" -> 5 [] c = "6" -> 6 [] c = "7" -> 7
      [] c = "8" -> 8 [] c = "9" -> 9 [] OTHER -> 10

RECURSIVE SplitDots(_, _, _)
\* the parts of s[k .. Len(s)] between dots, cur being the part read so far
SplitDots(s, k, cur) ==
    IF k > Len(s) THEN <<cur>>
    ELSE IF s[k] = "." THEN <<cur>> \o SplitDots(s, k + 1, <<>>)
    ELSE SplitDots(s, k + 1, Append(cur, s[k]))

RECURSIVE DecVal(_)
DecVal(p) ==
    IF p = <<>> THEN 0
    ELSE 10 * DecVal(SubSeq(p, 1, Len(p) - 1)) + DigitVal(p[Len(p)])

\* inet_pton(AF_INET, s, &addr): the four bytes of a dotted quad, <<>> when s
\* is none
inet_pton4(s) ==
    LET parts == SplitDots(s, 1, <<>>) IN
    IF /\ Len(parts) = 4
       /\ \A k \in 1 .. 4 :
            /\ Len(parts[k]) \in 1 .. 3
            /\ \A j \in 1 .. Len(parts[k]) : DigitVal(parts[k][j]) < 10
            /\ DecVal(parts[k]) <= 255
    THEN [k \in 1 .. 4 |-> DecVal(parts[k])]
    ELSE <<>>

\* inet_pton(AF_INET6, s, &addr) succeeds on no string without a colon, and
\* the model's host names have none
inet_pton6(s) == <<>>

\* tolower, for the letters the model's names use
ToLower(c) ==
    CASE c = "R" -> "r" [] c = "A" -> "a" [] c = "D" -> "d" [] OTHER -> c

\* l == strlen(exact) && !strncasecmp(exact, v, l)
SameNoCase(exact, v) ==
    /\ Len(v) = Len(exact)
    /\ \A k \in 1 .. Len(v) : ToLower(v[k]) = ToLower(exact[k])

\* !memcmp(v, exact, l) with l the length of v: the first l bytes of exact
\* (which ends with a zero byte) are those of v
SamePrefix(v, exact) ==
    /\ Len(v) <= Len(exact)
    /\ SubSeq(exact, 1, Len(v)) = v

NoRegex == {<<"no regex">>}

\* !regexec(regex, s, 0, NULL, 0)
regexec(regex, s) == s \in regex

RECURSIVE subjectaltnameaddrFrom(_, _, _, _, _)
\* the loop of subjectaltnameaddr over san[i .. Len(san)] with r so far. The
\* entry is compared with the l bytes at &addr, which are the bytes of the
\* pointer variable addr (ptr), not those of the address it points to.
subjectaltnameaddrFrom(san, i, family, ptr, r) ==
    IF i > Len(san) THEN r
    ELSE IF san[i].type # "IPADD"
    THEN subjectaltnameaddrFrom(san, i + 1, family, ptr, r)
    ELSE IF /\ \/ family = "AF_INET" /\ Len(san[i].v) = 4
               \/ family = "AF_INET6" /\ Len(san[i].v) = 16
            /\ san[i].v = SubSeq(ptr, 1, Len(san[i].v))
    THEN 1
    ELSE subjectaltnameaddrFrom(san, i + 1, family, ptr, -1)

\* subjectaltnameaddr(cert, family, addr): 1 match, -1 entries but no match,
\* 0 no iPAddress entry. addr is passed and not read.
subjectaltnameaddr(cert, family, addr, ptr) ==
    subjectaltnameaddrFrom(cert.san, 1, family, ptr, 0)

\* cnregexp(cert, exact, regex): some commonName equals exact without regard
\* to case (exact given), or matches regex
cnregexp(cert, exact, regex) ==
    IF \E k \in 1 .. Len(cert.cn) :
          IF exact # <<>> THEN SameNoCase(exact, cert.cn[k])
                          ELSE regexec(regex, cert.cn[k])
    THEN 1 ELSE 0

RECURSIVE subjectaltnameregexpFrom(_, _, _, _, _, _)
subjectaltnameregexpFrom(san, i, type, exact, regex, r) ==
    IF i > Len(san) THEN r
    ELSE IF san[i].type # type
    THEN subjectaltnameregexpFrom(san, i + 1, type, exact, regex, r)
    ELSE IF Len(san[i].v) = 0
    THEN subjectaltnameregexpFrom(san, i + 1, type, exact, regex, -1)
    ELSE IF IF exact # <<>> THEN SamePrefix(san[i].v, exact)
                            ELSE regexec(regex, san[i].v)
    THEN 1
    ELSE subjectaltnameregexpFrom(san, i + 1, type, exact, regex, -1)

\* subjectaltnameregexp(cert, type, exact, regex): 1 match, -1 entries of the
\* type but no match, 0 no entry of the type
subjectaltnameregexp(cert, type, exact, regex) ==
    subjectaltnameregexpFrom(cert.san, 1, type, exact, regex, 0)

\* the type verifyconfcert finds for conf->host
HostFamily(host) ==
    IF inet_pton4(host) # <<>> THEN "AF_INET"
    ELSE IF inet_pton6(host) # <<>> THEN "AF_INET6"
    ELSE "0"

\* the address verifyconfcert parses from conf->host
HostAddr(host) ==
    IF inet_pton4(host) # <<>> THEN inet_pton4(host) ELSE inet_pton6(host)

\* lines 769-789: the check of the certificate against conf->host
HostCheck(cert, conf, ptr) ==
    LET r == IF HostFamily(conf.host) # "0"
             THEN subjectaltnameaddr(cert, HostFamily(conf.host),
                                     HostAddr(conf.host), ptr)
             ELSE subjectaltnameregexp(cert, "DNS", conf.host, NoRegex)
    IN  IF r # 0 THEN r > 0 ELSE cnregexp(cert, conf.host, NoRegex) # 0

\* verifyconfcert(cert, conf): 1 accepted, 0 rejected
verifyconfcert(cert, conf, ptr) ==
    IF conf.prefixlen = 255 /\ ~HostCheck(cert, conf, ptr) THEN 0
    ELSE IF conf.certcnregex # NoRegex
            /\ cnregexp(cert, <<>>, conf.certcnregex) < 1 THEN 0
    ELSE IF conf.certuriregex # NoRegex
            /\ subjectaltnameregexp(cert, "URI", <<>>, conf.certuriregex) < 1 THEN 0
    ELSE 1

\* prefixmatch(a1, a2, len): the first len bits of a1 and a2 agree
prefixmatch(a1, a2, len) ==
    LET l == len \div 8
        r == len % 8
    IN  /\ SubSeq(a1, 1, l) = SubSeq(a2, 1, l)
        /\ r # 0 => a1[l + 1] \div (2 ^ (8 - r)) = a2[l + 1] \div (2 ^ (8 - r))

\* the test of find_conf and checkconfaddr for one configuration
ConfMatches(type, addr, conf) ==
    /\ conf.type = type
    /\ IF conf.prefixlen = 255
       THEN \E k \in 1 .. Len(conf.addrinfo) : conf.addrinfo[k] = addr
       ELSE /\ conf.addrinfo # <<>>
            /\ prefixmatch(addr, conf.addrinfo[1], conf.prefixlen)

RECURSIVE find_confFrom(_, _, _, _)
find_confFrom(type, addr, confs, k) ==
    IF k > Len(confs) THEN 0
    ELSE IF ConfMatches(type, addr, confs[k]) THEN k
    ELSE find_confFrom(type, addr, confs, k + 1)

\* find_conf(type, addr, confs, cur): the index of the first matching
\* configuration after cur (cur = 0: from the first), 0 for NULL
find_conf(type, addr, confs, cur) == find_confFrom(type, addr, confs, cur + 1)

(***************************************************************************)
(* The inbound TLS connection: tlslistener accepts it and picks the        *)
(* configuration, the thread tlsservernew does the handshake and the       *)
(* certificate checks and runs tlsserverrd, which starts the writer and    *)
(* hands the packets to radsrv. inc.pc is the position:                    *)
(*   listen     tlslistener in accept                                      *)
(*   accept     tlsservernew before SSL_accept                             *)
(*   verify     before verifytlscert / verifyconfcert                      *)
(*   serve      tlsserverrd before pthread_create of the writer            *)
(*   read       tlsserverrd in radtlsget                                   *)
(*   join       tlsserverrd in pthread_join of the writer                  *)
(*   exit       tlsservernew at the label exit                             *)
(*   closed     the socket is closed and the client removed and freed      *)
(* inc.served is history: tlsserverrd was entered. inc.wpc is the position *)
(* of the writer tlsserverwr of the connection:                            *)
(*   off        not created                                                *)
(*   wait       at the top of its loop or in pthread_cond_wait             *)
(*   write      a reply taken from the queue, before SSL_write             *)
(*   exited     after pthread_exit                                         *)
(*   crashed    SSL_write dereferenced the null session: the process died  *)
(***************************************************************************)
\* strings and addresses of the configurations and certificates
Host1234 == <<"1", ".", "2", ".", "3", ".", "4">>

NameRad == <<"r", "a", "d">>

NameRadCaps == <<"R", "A", "D">>

NameRa == <<"r", "a">>

NameDar == <<"d", "a", "r">>

Addr1234 == <<1, 2, 3, 4>>

Addr1235 == <<1, 2, 3, 5>>

Net123 == <<1, 2, 3, 0>>

\* client configurations: a TLS client named by address, one named by a host
\* name that resolves to the same address, two for the same prefix that
\* differ in the commonName they ask for, and a UDP client at the address
ConfByAddr ==
    [type |-> "T", host |-> Host1234, addrinfo |-> <<Addr1234>>, prefixlen |-> 255,
     certcnregex |-> NoRegex, certuriregex |-> NoRegex]

ConfByName ==
    [type |-> "T", host |-> NameRad, addrinfo |-> <<Addr1234>>, prefixlen |-> 255,
     certcnregex |-> NoRegex, certuriregex |-> NoRegex]

ConfNetRad ==
    [type |-> "T", host |-> NameRa, addrinfo |-> <<Net123>>, prefixlen |-> 24,
     certcnregex |-> {NameRad}, certuriregex |-> NoRegex]

ConfNetDar ==
    [type |-> "T", host |-> NameRa, addrinfo |-> <<Net123>>, prefixlen |-> 24,
     certcnregex |-> {NameDar}, certuriregex |-> NoRegex]

ConfUdp ==
    [type |-> "U", host |-> Host1234, addrinfo |-> <<Addr1234>>, prefixlen |-> 255,
     certcnregex |-> NoRegex, certuriregex |-> NoRegex]

ClientConfs == {ConfByAddr, ConfByName, ConfNetRad, ConfNetDar, ConfUdp}

\* the longest list of client configurations
MaxConfs == 2

ConfLists == UNION {[1 .. n -> ClientConfs] : n \in 1 .. MaxConfs}

\* peer certificates: with the address as iPAddress, with another address,
\* with no subjectAltName and the address as commonName, with dNSName
\* entries, and with only a commonName
Certs ==
    { [cn |-> <<NameRad>>, san |-> <<[type |-> "IPADD", v |-> Addr1234]>>],
      [cn |-> <<NameDar>>, san |-> <<[type |-> "IPADD", v |-> Addr1235]>>],
      [cn |-> <<Host1234>>, san |-> <<>>],
      [cn |-> <<NameDar>>, san |-> <<[type |-> "DNS", v |-> NameRad]>>],
      [cn |-> <<NameDar>>, san |-> <<[type |-> "DNS", v |-> NameRa]>>],
      [cn |-> <<NameRadCaps>>, san |-> <<>>] }

\* the bytes at &addr in subjectaltnameaddr, which are those of a pointer
\* into the stack of verifyconfcert: any, also the bytes of an address
PointerBytes ==
    { <<208, 230, 255, 255, 255, 127, 0, 0>>, <<1, 2, 3, 4, 255, 127, 0, 0>> }

PeerAddrs == {Addr1234, Addr1235}

\* the mutant of the test after verifyconfcert: every certificate passes
ConfCertRejectedNever(r) == FALSE

\* if (!verifyconfcert(cert, client->conf)) goto exit
ConfCertRejected(r) == r = 0

\* tlslistener, lines 2494-2527: accept, find_conf from the head of the list,
\* addclient, SSL_new, pthread_create of tlsservernew
TlsListenerAccept ==
    /\ inc.pc = "listen"
    /\ \E from \in PeerAddrs :
        LET conf == find_conf("T", from, clconfs, 0) IN
        inc' = IF conf = 0
               THEN [inc EXCEPT !.pc = "closed", !.addr = from]
               ELSE [inc EXCEPT !.pc = "accept", !.addr = from, !.conf = conf,
                                !.ssl = "new"]
    /\ UNCHANGED <<coreVars, clconfs>>

\* tlsservernew, lines 2351-2356: SSL_accept, in which the peer presents its
\* certificate and OpenSSL validates the chain
TlsServerNewAccept ==
    /\ inc.pc = "accept"
    /\ \E ok \in BOOLEAN, cert \in Certs, chainok \in BOOLEAN :
        inc' = IF ok
               THEN [inc EXCEPT !.pc = "verify", !.ssl = "accepted",
                                !.cert = cert, !.chainok = chainok]
               ELSE [inc EXCEPT !.pc = "exit"]
    /\ UNCHANGED <<coreVars, clconfs>>

\* tlsservernew, lines 2358-2366: verifytlscert, verifyconfcert, tlsserverrd
TlsServerNewVerify ==
    /\ inc.pc = "verify"
    /\ \E ptr \in PointerBytes :
        LET r == verifyconfcert(inc.cert, clconfs[inc.conf], ptr) IN
        inc' = IF ~inc.chainok
               THEN [inc EXCEPT !.pc = "exit"]
               ELSE IF ConfCertRejected(r)
               THEN [inc EXCEPT !.pc = "exit", !.verified = r]
               ELSE [inc EXCEPT !.pc = "serve", !.verified = r, !.served = TRUE]
    /\ UNCHANGED <<coreVars, clconfs>>

\* tlsserverrd, lines 2314-2317: the writer thread is created
TlsServerRdStart ==
    /\ inc.pc = "serve"
    /\ inc' = [inc EXCEPT !.pc = "read", !.writer = TRUE, !.wpc = "wait"]
    /\ UNCHANGED <<coreVars, clconfs>>

\* requests the connection's peer sends
MaxInRq == 2

\* tlsserverrd, lines 2320-2326: a packet of the peer is handed to radsrv
TlsServerRdGet ==
    /\ inc.pc = "read"
    /\ inc.nradsrv < MaxInRq
    /\ inc' = [inc EXCEPT !.nradsrv = @ + 1]
    /\ \E p \in RequestPackets, newauth \in NewAuths :
        /\ p.snd.from = "ct"
        /\ radsrv("ct", NoAddr, p, newauth)
    /\ UNCHANGED clconfs

\* tlsserverrd, lines 2322-2335: radtlsget returns NULL; client->ssl = NULL,
\* the writer is signalled, pthread_join is entered
TlsServerRdLost ==
    /\ inc.pc = "read"
    /\ inc' = [inc EXCEPT !.pc = "join", !.ssl = "null"]
    /\ UNCHANGED <<coreVars, clconfs>>

\* tlsserverwr, lines 2280-2294: the queue has a reply; it is taken whatever
\* client->ssl is
TlsServerWrShift ==
    /\ inc.wpc = "wait"
    /\ replyq["ct"] # <<>>
    /\ replyq' = [replyq EXCEPT !["ct"] = Tail(@)]
    /\ inc' = [inc EXCEPT !.wpc = "write"]
    /\ UNCHANGED <<clock, srvconf, requests, nextid, newrq, connectionok,
                   loststatsrv, wr, nrq, lastfree, clconfs>>

\* tlsserverwr, lines 2296-2304: SSL_write(client->ssl, ...). With client->ssl
\* null the call dereferences the null pointer (the process dies) or, in a
\* library that tests its argument, fails.
TlsServerWrWrite ==
    /\ inc.wpc = "write"
    /\ \E dies \in BOOLEAN :
        inc' = [inc EXCEPT !.wpc = IF inc.ssl = "null" /\ dies THEN "crashed"
                                   ELSE "wait"]
    /\ UNCHANGED <<coreVars, clconfs>>

\* the mutant of the writer's exit: the sentinel is tested whatever the queue
\* holds
TlsServerWrExitAtOnce ==
    /\ inc.wpc = "wait"
    /\ inc.ssl = "null"
    /\ inc' = [inc EXCEPT !.wpc = "exited", !.writer = FALSE]
    /\ UNCHANGED <<coreVars, clconfs>>

\* tlsserverwr, lines 2281-2292: the queue is empty and client->ssl null: the
\* writer exits
TlsServerWrExit ==
    /\ inc.wpc = "wait"
    /\ replyq["ct"] = <<>>
    /\ inc.ssl = "null"
    /\ inc' = [inc EXCEPT !.wpc = "exited", !.writer = FALSE]
    /\ UNCHANGED <<coreVars, clconfs>>

\* the mutant of removeclientrqs: the slots keep the client
removeclientrqsNone(client) == requests

\* removeclientrqs(client): under newrq_mutex, every slot of the server that
\* has the client as from gets from = NULL
removeclientrqs(client) ==
    [i \in SlotIds |->
        IF requests[i].from = client
        THEN [requests[i] EXCEPT !.from = NULL]
        ELSE requests[i]]

\* tlsserverrd, lines 2335-2338: pthread_join returns, removeclientrqs
TlsServerRdJoin ==
    /\ inc.pc = "join"
    /\ inc.wpc = "exited"
    /\ inc' = [inc EXCEPT !.pc = "exit"]
    /\ requests' = removeclientrqs("ct")
    /\ UNCHANGED <<clock, srvconf, nextid, newrq, connectionok, loststatsrv, wr,
                   replyq, nrq, lastfree, clconfs>>

\* tlsservernew, lines 2368-2375: SSL_free, close, removeclient (the replies
\* of the queue and the client are freed)
TlsServerNewExit ==
    /\ inc.pc = "exit"
    /\ inc' = [inc EXCEPT !.pc = "closed", !.ssl = "freed"]
    /\ replyq' = [replyq EXCEPT !["ct"] = <<>>]
    /\ UNCHANGED <<clock, srvconf, requests, nextid, newrq, connectionok,
                   loststatsrv, wr, nrq, lastfree, clconfs>>

\* the process runs
Alive == inc.wpc # "crashed"

InitIn ==
    /\ InitTable({[type |-> "U", statusserver |-> FALSE]})
    /\ clconfs \in ConfLists
    /\ inc = [IncOff EXCEPT !.pc = "listen"]
    /\ TlsOff
    /\ RealmOff
    /\ LogOff
    /\ QOff
    /\ WorkOff

NextIn ==
    \/ TlsListenerAccept /\ UNCHANGED <<tlsVars, realmVars, lastlog, qhist, work>>
    \/ TlsServerNewAccept /\ UNCHANGED <<tlsVars, realmVars, lastlog, qhist, work>>
    \/ TlsServerNewVerify /\ UNCHANGED <<tlsVars, realmVars, lastlog, qhist, work>>
    \/ TlsServerRdStart /\ UNCHANGED <<tlsVars, realmVars, lastlog, qhist, work>>
    \/ TlsServerRdGet /\ UNCHANGED <<tlsVars, realmVars, lastlog, qhist, work>>
    \/ TlsServerRdLost /\ UNCHANGED <<tlsVars, realmVars, lastlog, qhist, work>>
    \/ TlsServerWrShift /\ UNCHANGED <<tlsVars, realmVars, lastlog, qhist, work>>
    \/ TlsServerWrWrite /\ UNCHANGED <<tlsVars, realmVars, lastlog, qhist, work>>
    \/ TlsServerWrExit /\ UNCHANGED <<tlsVars, realmVars, lastlog, qhist, work>>
    \/ TlsServerRdJoin /\ UNCHANGED <<tlsVars, realmVars, lastlog, qhist, work>>
    \/ TlsServerNewExit /\ UNCHANGED <<tlsVars, realmVars, lastlog, qhist, work>>
    \/ Alive /\ ClientRdT /\ UNCHANGED <<inVars, tlsVars, realmVars, lastlog, qhist, work>>
    \/ Alive /\ WrStart /\ UNCHANGED <<inVars, tlsVars, realmVars, lastlog, qhist, work>>
    \/ Alive /\ WrTop /\ UNCHANGED <<inVars, tlsVars, realmVars, lastlog, qhist, work>>
    \/ Alive /\ WrWake /\ UNCHANGED <<inVars, tlsVars, realmVars, lastlog, qhist, work>>
    \/ Alive /\ WrScan /\ UNCHANGED <<inVars, tlsVars, realmVars, lastlog, qhist, work>>
    \/ Alive /\ WrSend /\ UNCHANGED <<inVars, tlsVars, realmVars, lastlog, qhist, work>>

SpecIn == InitIn /\ [][NextIn]_vars

\* the threads of the connection and of the server are scheduled
SpecInFair == SpecIn /\ WF_vars(NextIn)

(***************************************************************************)
(* SpecDup: datagrams of several hosts that one UDP client configuration   *)
(* covers. clconfs holds that configuration, for a prefix of 24 bits;      *)
(* work.clients is its list of clients (conf->clients), work.last the      *)
(* source address of the last datagram radudpget returned and lastlog the  *)
(* last line logged about a request.                                       *)
(***************************************************************************)
ConfUdpNet ==
    [type |-> "U", host |-> NameRa, addrinfo |-> <<Net123>>, prefixlen |-> 24,
     certcnregex |-> NoRegex, certuriregex |-> NoRegex]

\* the sockaddr of a source address
SockAddr(a) ==
    IF a = "a1" THEN Addr1234 ELSE IF a = "a2" THEN Addr1235 ELSE <<9, 9, 9, 9>>

\* the datagrams: an Access-Request with id 7 from each address
DupPackets ==
    {p \in RequestPackets :
        p.snd.from = "cu" /\ p.snd.id = 7 /\ p.code = "Access-Request" /\ p.fault = "ok"}

\* radudpget, lines 601-607: the first client of the configuration, made by
\* addclient when the list is empty
ClientsOf(clients) == IF clients = <<>> THEN <<"cu">> ELSE clients

\* udpserverrd: radudpget on the listening socket, then radsrv
UdpServerRdDup ==
    \E p \in DupPackets : \E a \in {p.snd.fromsa, UnknownAddr} :
        IF find_conf("U", SockAddr(a), clconfs, 0) = 0
        THEN /\ UNCHANGED <<coreVars, work>>
             /\ lastlog' = "radudpget: got packet from wrong or unknown UDP peer, ignoring"
        ELSE LET from == Head(ClientsOf(work.clients)) IN
             /\ radsrv(from, a, p, "n1")
             /\ lastlog' = RadsrvLog(from, p)
             /\ work' = [work EXCEPT !.clients = ClientsOf(@), !.last = a]

InitDup ==
    /\ InitTable([type : {"U"}, statusserver : {FALSE}])
    /\ clconfs = <<ConfUdpNet>>
    /\ inc = IncOff
    /\ TlsOff
    /\ RealmOff
    /\ LogOff
    /\ QOff
    /\ work = [op |-> "udp", clients |-> <<>>, last |-> NoAddr]

NextDup ==
    \/ UdpServerRdDup /\ UNCHANGED <<inVars, tlsVars, realmVars, qhist>>
    \/ ClientRdT /\ UNCHANGED <<inVars, tlsVars, realmVars, lastlog, qhist, work>>
    \/ UdpServerWr /\ UNCHANGED <<inVars, tlsVars, realmVars, lastlog, qhist, work>>
    \/ WrStart /\ UNCHANGED <<inVars, tlsVars, realmVars, lastlog, qhist, work>>
    \/ WrTop /\ UNCHANGED <<inVars, tlsVars, realmVars, lastlog, qhist, work>>
    \/ WrWake /\ UNCHANGED <<inVars, tlsVars, realmVars, lastlog, qhist, work>>
    \/ WrSpuriousWake /\ UNCHANGED <<inVars, tlsVars, realmVars, lastlog, qhist, work>>
    \/ WrScan /\ UNCHANGED <<inVars, tlsVars, realmVars, lastlog, qhist, work>>
    \/ WrSend /\ UNCHANGED <<inVars, tlsVars, realmVars, lastlog, qhist, work>>
    \/ WrStatus /\ UNCHANGED <<inVars, tlsVars, realmVars, lastlog, qhist, work>>
    \/ Tick /\ UNCHANGED <<inVars, tlsVars, realmVars, lastlog, qhist, work>>

SpecDup == InitDup /\ [][NextDup]_vars

(***************************************************************************)
(* The session of a TLS upstream. server is                                *)
(*   [ssl            : server->ssl, the session,                           *)
(*    lock           : the thread that holds server->lock, or "none",      *)
(*    lastconnecttry : server->lastconnecttry, as the number of the        *)
(*                     reading of the time of day it holds (0: zero),      *)
(*    fresh          : that reading is less than 100000 seconds old,       *)
(*    attempts       : history, the calls of connecttcp]                   *)
(* and a session [id, state, cert, chainok, alive, verified]: id numbers   *)
(* the SSL_new calls, state is "null", "new" (no handshake completed) or   *)
(* "connected", alive that the peer has not closed, and verified is        *)
(* history: verifytlscert and verifyconfcert accepted its certificate, as  *)
(* is by: the thread that made the session.                                *)
(* th[t] is the thread t ("wr" clientwr, "rd" tlsclientrd):                *)
(*   [pc, when (the local lastconnecttry), text (the caller of tlsconnect),*)
(*    ssl (the session radtlsget reads), n (the calls of clientradput)]    *)
(* with pc one of                                                          *)
(*   off         not created                                               *)
(*   tlsconnect  before pthread_mutex_lock(&server->lock)                  *)
(*   loop        at the top of the loop of tlsconnect, holding the lock    *)
(*   sleep       in sleep(), holding the lock                              *)
(*   tcp         before close / connecttcp                                 *)
(*   connect     before SSL_connect                                        *)
(*   verify      before verifytlscert / verifyconfcert                     *)
(*   return      tlsconnect returned                                       *)
(*   idle        clientwr outside clientradput                             *)
(*   write       clientradput before SSL_write                             *)
(*   rdtop       tlsclientrd at the top of its loop                        *)
(*   read        tlsclientrd in radtlsget                                  *)
(***************************************************************************)
\* calls of connecttcp, and of clientradput, in one behaviour
MaxAttempts == 3

MaxPuts == 2

Threads == {"wr", "rd"}

\* the configuration of the upstream: named by a host name
ServerConf ==
    [type |-> "T", host |-> NameRad, addrinfo |-> <<Addr1234>>, prefixlen |-> 255,
     certcnregex |-> NoRegex, certuriregex |-> NoRegex]

\* the mutant of pthread_mutex_lock: the lock is no obstacle
LockFreeAlways == TRUE

\* pthread_mutex_lock(&server->lock) returns when no thread holds the lock
LockFree == server.lock = "none"

\* tlsconnect, lines 813-819: the lock is taken; when the caller's reading of
\* lastconnecttry is no longer the server's, another thread has reconnected
TlsConnectLock(t) ==
    /\ th[t].pc = "tlsconnect"
    /\ LockFree
    /\ IF th[t].when # NoWhen /\ server.lastconnecttry # th[t].when
       THEN /\ th' = [th EXCEPT ![t].pc = "return"]
            /\ UNCHANGED server
       ELSE /\ th' = [th EXCEPT ![t].pc = "loop"]
            /\ server' = [server EXCEPT !.lock = t]
    /\ UNCHANGED <<clock, srvconf, requests, nextid, newrq, connectionok,
                   loststatsrv, wr, replyq, nrq, lastfree, sent>>

\* tlsconnect, lines 824-838: the choice of the sleep
TlsConnectLoop(t) ==
    /\ th[t].pc = "loop"
    /\ IF connectionok
       THEN /\ connectionok' = FALSE
            /\ th' = [th EXCEPT ![t].pc = "sleep"]
            /\ UNCHANGED server
       ELSE /\ UNCHANGED connectionok
            /\ IF server.fresh
               THEN /\ th' = [th EXCEPT ![t].pc = "sleep"]
                    /\ UNCHANGED server
               ELSE /\ th' = [th EXCEPT ![t].pc = "tcp"]
                    /\ server' = [server EXCEPT !.lastconnecttry = @ + 1,
                                                !.fresh = TRUE]
    /\ UNCHANGED <<clock, srvconf, requests, nextid, newrq, loststatsrv, wr,
                   replyq, nrq, lastfree, sent>>

\* the sleep of tlsconnect ends
TlsConnectWake(t) ==
    /\ th[t].pc = "sleep"
    /\ th' = [th EXCEPT ![t].pc = "tcp"]
    /\ UNCHANGED <<coreVars, server, sent>>

\* tlsconnect, lines 840-849: the socket is closed and connecttcp called; when
\* it succeeds the session is freed and a new one made for the socket
TlsConnectTcp(t) ==
    /\ th[t].pc = "tcp"
    /\ server.attempts < MaxAttempts
    /\ \E ok \in BOOLEAN :
        IF ok
        THEN /\ server' = [server EXCEPT
                              !.attempts = @ + 1,
                              !.ssl = [NoSsl EXCEPT !.id = server.ssl.id + 1,
                                                    !.state = "new",
                                                    !.by = t]]
             /\ th' = [th EXCEPT ![t].pc = "connect"]
        ELSE /\ server' = [server EXCEPT !.attempts = @ + 1,
                                         !.ssl.alive = FALSE]
             /\ th' = [th EXCEPT ![t].pc = "loop"]
    /\ UNCHANGED <<coreVars, sent>>

\* tlsconnect, lines 850-851: SSL_connect, in which the peer presents its
\* certificate and OpenSSL validates the chain
TlsConnectHandshake(t) ==
    /\ th[t].pc = "connect"
    /\ \E ok \in BOOLEAN, cert \in Certs, chainok \in BOOLEAN :
        IF ok
        THEN /\ server' = [server EXCEPT
                              !.ssl = [@ EXCEPT !.state = "connected",
                                                !.cert = cert,
                                                !.chainok = chainok,
                                                !.alive = TRUE]]
             /\ th' = [th EXCEPT ![t].pc = "verify"]
        ELSE /\ th' = [th EXCEPT ![t].pc = "loop"]
             /\ UNCHANGED server
    /\ UNCHANGED <<coreVars, sent>>

\* tlsconnect, lines 852-863: verifytlscert and verifyconfcert; when both
\* accept, the loop is left, lastconnecttry read anew and the lock released
TlsConnectVerify(t) ==
    /\ th[t].pc = "verify"
    /\ \E ptr \in PointerBytes :
        IF /\ server.ssl.chainok
           /\ verifyconfcert(server.ssl.cert, ServerConf, ptr) # 0
        THEN /\ server' = [server EXCEPT !.ssl.verified = TRUE,
                                         !.lastconnecttry = @ + 1,
                                         !.fresh = TRUE,
                                         !.lock = "none"]
             /\ th' = [th EXCEPT ![t].pc = "return"]
        ELSE /\ th' = [th EXCEPT ![t].pc = "loop"]
             /\ UNCHANGED server
    /\ UNCHANGED <<coreVars, sent>>

\* clientwr, lines 2090-2093: the first connection
ClientWrConnect ==
    /\ th["wr"].pc = "off"
    /\ srvconf.type = "T"
    /\ th' = [th EXCEPT !["wr"].pc = "tlsconnect", !["wr"].when = NoWhen,
                        !["wr"].text = "new client"]
    /\ UNCHANGED <<coreVars, server, sent>>

\* clientwr, lines 2094-2097: connectionok is set and tlsclientrd created
ClientWrStarted ==
    /\ th["wr"].pc = "return"
    /\ th["wr"].text = "new client"
    /\ connectionok' = TRUE
    /\ wr' = [wr EXCEPT !.pc = "top"]
    /\ th' = [th EXCEPT !["wr"].pc = "idle", !["rd"].pc = "rdtop"]
    /\ UNCHANGED <<clock, srvconf, requests, nextid, newrq, loststatsrv,
                   replyq, nrq, lastfree, server, sent>>

\* clientradput, line 932, called by clientwr for a request (2177) or a
\* Status-Server probe (2195): lastconnecttry is read
ClientRadPut ==
    /\ th["wr"].pc = "idle"
    /\ th["wr"].n < MaxPuts
    /\ th' = [th EXCEPT !["wr"].pc = "write", !["wr"].n = @ + 1,
                        !["wr"].when = server.lastconnecttry]
    /\ UNCHANGED <<coreVars, server, sent>>

\* clientradput, lines 933-940: SSL_write on server->ssl, without the lock.
\* It succeeds on a connected session whose peer has not closed. On a session
\* in which another thread is inside SSL_connect the two calls race, and the
\* write fails or gets through.
ClientRadPutWrite ==
    /\ th["wr"].pc = "write"
    /\ \E raced \in BOOLEAN :
        LET s == server.ssl
            ok == IF s.state = "connected" THEN s.alive
                  ELSE raced /\ \E u \in Threads : th[u].pc = "connect"
        IN  IF ok
            THEN /\ sent' = sent \cup {[id |-> s.id,
                                        handshaken |-> s.state = "connected",
                                        verified |-> s.verified]}
                 /\ connectionok' = TRUE
                 /\ th' = [th EXCEPT !["wr"].pc = "idle"]
            ELSE /\ th' = [th EXCEPT !["wr"].pc = "tlsconnect",
                                     !["wr"].text = "clientradput"]
                 /\ UNCHANGED <<sent, connectionok>>
    /\ UNCHANGED <<clock, srvconf, requests, nextid, newrq, loststatsrv, wr,
                   replyq, nrq, lastfree, server>>

\* clientradput, line 937: after tlsconnect the write is tried again
ClientRadPutRetry ==
    /\ th["wr"].pc = "return"
    /\ th["wr"].text = "clientradput"
    /\ th' = [th EXCEPT !["wr"].pc = "write",
                        !["wr"].when = server.lastconnecttry]
    /\ UNCHANGED <<coreVars, server, sent>>

\* tlsclientrd, lines 2055-2056: lastconnecttry is read and radtlsget called
\* with the session
TlsClientRdTop ==
    /\ th["rd"].pc = "rdtop"
    /\ th' = [th EXCEPT !["rd"].pc = "read",
                        !["rd"].when = server.lastconnecttry,
                        !["rd"].ssl = server.ssl.id]
    /\ UNCHANGED <<coreVars, server, sent>>

\* the session radtlsget reads is the server's and can deliver
ReadableSsl ==
    /\ server.ssl.id = th["rd"].ssl
    /\ server.ssl.state = "connected"
    /\ server.ssl.alive

\* tlsclientrd, lines 2056-2063: radtlsget returns a packet, replyh
TlsClientRdGet ==
    /\ th["rd"].pc = "read"
    /\ ReadableSsl
    /\ th' = [th EXCEPT !["rd"].pc = "rdtop"]
    /\ \E p \in TimedReplyPackets : replyh(p.buf, p.fault)
    /\ UNCHANGED <<server, sent>>

\* tlsclientrd, lines 2056-2059: radtlsget returns NULL, tlsconnect
TlsClientRdLost ==
    /\ th["rd"].pc = "read"
    /\ ~ReadableSsl
    /\ th' = [th EXCEPT !["rd"].pc = "tlsconnect", !["rd"].text = "clientrd"]
    /\ UNCHANGED <<coreVars, server, sent>>

\* tlsclientrd, line 2059: after tlsconnect the loop continues
TlsClientRdRetry ==
    /\ th["rd"].pc = "return"
    /\ th["rd"].text = "clientrd"
    /\ th' = [th EXCEPT !["rd"].pc = "rdtop"]
    /\ UNCHANGED <<coreVars, server, sent>>

\* the peer closes the connection
UpstreamClose ==
    /\ server.ssl.state = "connected"
    /\ server.ssl.alive
    /\ server' = [server EXCEPT !.ssl.alive = FALSE]
    /\ UNCHANGED <<coreVars, th, sent>>

\* 100000 seconds pass since the time lastconnecttry holds
LongTimePasses ==
    /\ server.fresh
    /\ server' = [server EXCEPT !.fresh = FALSE]
    /\ UNCHANGED <<coreVars, th, sent>>

InitTls ==
    /\ InitTable({[type |-> "T", statusserver |-> FALSE]})
    /\ InOff
    /\ TlsOff
    /\ RealmOff
    /\ LogOff
    /\ QOff
    /\ WorkOff

NextTls ==
    \/ (\E t \in Threads : TlsConnectLock(t)) /\ UNCHANGED <<inVars, realmVars, lastlog, qhist, work>>
    \/ (\E t \in Threads : TlsConnectLoop(t)) /\ UNCHANGED <<inVars, realmVars, lastlog, qhist, work>>
    \/ (\E t \in Threads : TlsConnectWake(t)) /\ UNCHANGED <<inVars, realmVars, lastlog, qhist, work>>
    \/ (\E t \in Threads : TlsConnectTcp(t)) /\ UNCHANGED <<inVars, realmVars, lastlog, qhist, work>>
    \/ (\E t \in Threads : TlsConnectHandshake(t)) /\ UNCHANGED <<inVars, realmVars, lastlog, qhist, work>>
    \/ (\E t \in Threads : TlsConnectVerify(t)) /\ UNCHANGED <<inVars, realmVars, lastlog, qhist, work>>
    \/ ClientWrConnect /\ UNCHANGED <<inVars, realmVars, lastlog, qhist, work>>
    \/ ClientWrStarted /\ UNCHANGED <<inVars, realmVars, lastlog, qhist, work>>
    \/ ClientRadPut /\ UNCHANGED <<inVars, realmVars, lastlog, qhist, work>>
    \/ ClientRadPutWrite /\ UNCHANGED <<inVars, realmVars, lastlog, qhist, work>>
    \/ ClientRadPutRetry /\ UNCHANGED <<inVars, realmVars, lastlog, qhist, work>>
    \/ TlsClientRdTop /\ UNCHANGED <<inVars, realmVars, lastlog, qhist, work>>
    \/ TlsClientRdGet /\ UNCHANGED <<inVars, realmVars, lastlog, qhist, work>>
    \/ TlsClientRdLost /\ UNCHANGED <<inVars, realmVars, lastlog, qhist, work>>
    \/ TlsClientRdRetry /\ UNCHANGED <<inVars, realmVars, lastlog, qhist, work>>
    \/ UpstreamClose /\ UNCHANGED <<inVars, realmVars, lastlog, qhist, work>>
    \/ LongTimePasses /\ UNCHANGED <<inVars, realmVars, lastlog, qhist, work>>

SpecTls == InitTls /\ [][NextTls]_vars

(***************************************************************************)
(* The servers of a realm and the choice among them. Of each server the    *)
(* specification keeps what realm2server reads and what decides it:        *)
(*   [type, statusserver : the configuration,                              *)
(*    started      : clientwr is past its start,                           *)
(*    conn         : the TLS session is up (TRUE for UDP once started),     *)
(*    connectionok, loststatsrv : the fields of struct server,             *)
(*    probe        : a Status-Server probe is in the request table, sent,  *)
(*    since        : the time since the writer's lastsend, in steps of     *)
(*                   which PeriodSteps make STATUS_SERVER_PERIOD seconds,  *)
(*    answers      : the server answers what it is sent,                   *)
(*    lostrun      : history, the probes that expired since the last       *)
(*                   packet of the server]                                 *)
(* Every assignment to connectionok (827, 940, 1863, 2091, 2094) and to    *)
(* loststatsrv (1864, 2161) has its action.                                *)
(***************************************************************************)
\* servers of the realm, and the probes that expire in a row
MaxServers == 2

MaxLost == 3

\* the steps of time that make up STATUS_SERVER_PERIOD seconds
PeriodSteps == 2

ServerIds == 1 .. Len(srvconfs)

NewServer(type, statusserver) ==
    [type |-> type, statusserver |-> statusserver, started |-> FALSE,
     conn |-> FALSE, connectionok |-> FALSE, loststatsrv |-> 0,
     probe |-> FALSE, since |-> 0, answers |-> TRUE, lostrun |-> 0]

\* clientwr, lines 2090-2097: connectionok is set, for TLS after tlsconnect
ClientWrUp(k) ==
    /\ ~srvconfs[k].started
    /\ srvconfs' = [srvconfs EXCEPT ![k].started = TRUE, ![k].conn = TRUE,
                                    ![k].connectionok = TRUE]
    /\ UNCHANGED routed

\* time passes: now.tv_sec - lastsend.tv_sec grows for every writer (it is
\* followed up to the period that line 2183 compares it with)
TimePasses ==
    /\ \E k \in ServerIds :
            srvconfs[k].started /\ srvconfs[k].since < PeriodSteps
    /\ srvconfs' = [k \in ServerIds |->
                      IF srvconfs[k].started /\ srvconfs[k].since < PeriodSteps
                      THEN [srvconfs[k] EXCEPT !.since = @ + 1]
                      ELSE srvconfs[k]]
    /\ UNCHANGED routed

\* clientwr, lines 2172-2178: a request of the table is transmitted;
\* clientradput sets connectionok for TLS (940), lastsend is read anew (2179)
ClientWrSend(k) ==
    /\ srvconfs[k].started
    /\ srvconfs[k].conn
    /\ srvconfs' = [srvconfs EXCEPT
                       ![k].since = 0,
                       ![k].connectionok = IF srvconfs[k].type = "T" THEN TRUE ELSE @]
    /\ UNCHANGED routed

\* clientwr, lines 2181-2197 and the transmission that follows: lastsend is
\* STATUS_SERVER_PERIOD old, a probe is stored and sent
ClientWrProbe(k) ==
    /\ srvconfs[k].statusserver
    /\ srvconfs[k].started
    /\ srvconfs[k].conn
    /\ srvconfs[k].since >= PeriodSteps
    /\ ~srvconfs[k].probe
    /\ srvconfs' = [srvconfs EXCEPT
                       ![k].probe = TRUE,
                       ![k].since = 0,
                       ![k].connectionok = IF srvconfs[k].type = "T" THEN TRUE ELSE @]
    /\ UNCHANGED routed

\* the mutant of the count of lost probes: the count stays
LostOneMoreSame(n) == n

\* if (server->loststatsrv < 255) server->loststatsrv++
LostOneMore(n) == IF n < 255 THEN n + 1 ELSE n

\* clientwr, lines 2156-2166: the probe expired unanswered
ClientWrProbeExpired(k) ==
    /\ srvconfs[k].probe
    /\ srvconfs[k].lostrun < MaxLost
    /\ srvconfs' = [srvconfs EXCEPT
                       ![k].probe = FALSE,
                       ![k].loststatsrv = LostOneMore(@),
                       ![k].lostrun = @ + 1]
    /\ UNCHANGED routed

\* replyh, lines 1863-1864 and 1932-1937: a packet of the server arrives, for
\* the probe or for another request
ReplyFrom(k) ==
    /\ srvconfs[k].started
    /\ srvconfs[k].conn
    /\ srvconfs[k].answers
    /\ \E forprobe \in BOOLEAN :
        srvconfs' = [srvconfs EXCEPT
                        ![k].connectionok = TRUE,
                        ![k].loststatsrv = 0,
                        ![k].lostrun = 0,
                        ![k].probe = @ /\ ~forprobe]
    /\ UNCHANGED routed

\* the server stops answering
ServerSilent(k) ==
    /\ srvconfs[k].answers
    /\ srvconfs' = [srvconfs EXCEPT ![k].answers = FALSE]
    /\ UNCHANGED routed

\* tlsconnect, lines 826-828: the session of a TLS server is lost
TlsConnLost(k) ==
    /\ srvconfs[k].type = "T"
    /\ srvconfs[k].started
    /\ srvconfs[k].conn
    /\ srvconfs' = [srvconfs EXCEPT ![k].conn = FALSE, ![k].connectionok = FALSE]
    /\ UNCHANGED routed

\* tlsconnect, lines 861-863: the session is up again
TlsConnUp(k) ==
    /\ srvconfs[k].type = "T"
    /\ srvconfs[k].started
    /\ ~srvconfs[k].conn
    /\ srvconfs' = [srvconfs EXCEPT ![k].conn = TRUE]
    /\ UNCHANGED routed

\* radsrv, line 1805: to = realm2server(realm) for an Access-Request
Route ==
    /\ routed' = [to |-> realm2server(srvconfs), n |-> 1 - routed.n]
    /\ UNCHANGED srvconfs

InitRealm ==
    /\ InitTable({[type |-> "U", statusserver |-> FALSE]})
    /\ InOff
    /\ TlsOff
    /\ srvconfs \in [1 .. MaxServers ->
                        {NewServer(t, s) : t \in {"U", "T"}, s \in BOOLEAN}]
    /\ routed = [to |-> 0, n |-> 0]
    /\ LogOff
    /\ QOff
    /\ WorkOff

NextRealm ==
    \/ (\E k \in ServerIds : ClientWrUp(k)) /\ UNCHANGED <<coreVars, inVars, tlsVars, lastlog, qhist, work>>
    \/ TimePasses /\ UNCHANGED <<coreVars, inVars, tlsVars, lastlog, qhist, work>>
    \/ (\E k \in ServerIds : ClientWrSend(k)) /\ UNCHANGED <<coreVars, inVars, tlsVars, lastlog, qhist, work>>
    \/ (\E k \in ServerIds : ClientWrProbe(k)) /\ UNCHANGED <<coreVars, inVars, tlsVars, lastlog, qhist, work>>
    \/ (\E k \in ServerIds : ClientWrProbeExpired(k)) /\ UNCHANGED <<coreVars, inVars, tlsVars, lastlog, qhist, work>>
    \/ (\E k \in ServerIds : ReplyFrom(k)) /\ UNCHANGED <<coreVars, inVars, tlsVars, lastlog, qhist, work>>
    \/ (\E k \in ServerIds : ServerSilent(k)) /\ UNCHANGED <<coreVars, inVars, tlsVars, lastlog, qhist, work>>
    \/ (\E k \in ServerIds : TlsConnLost(k)) /\ UNCHANGED <<coreVars, inVars, tlsVars, lastlog, qhist, work>>
    \/ (\E k \in ServerIds : TlsConnUp(k)) /\ UNCHANGED <<coreVars, inVars, tlsVars, lastlog, qhist, work>>
    \/ Route /\ UNCHANGED <<coreVars, inVars, tlsVars, lastlog, qhist, work>>

SpecRealm == InitRealm /\ [][NextRealm]_vars

\* The writer of every server runs and its timed waits end (lines 2099-2124),
\* time passes, and requests keep being routed; nothing is assumed about the
\* traffic a writer transmits, nor about the peers.
SpecRealmFair ==
    /\ SpecRealm
    /\ WF_vars(TimePasses /\ UNCHANGED <<coreVars, inVars, tlsVars, lastlog, qhist, work>>)
    /\ WF_vars(Route /\ UNCHANGED <<coreVars, inVars, tlsVars, lastlog, qhist, work>>)
    /\ \A k \in 1 .. MaxServers :
        /\ WF_vars(ClientWrUp(k) /\ UNCHANGED <<coreVars, inVars, tlsVars, lastlog, qhist, work>>)
        /\ WF_vars(ClientWrProbe(k) /\ UNCHANGED <<coreVars, inVars, tlsVars, lastlog, qhist, work>>)
        /\ WF_vars(ClientWrProbeExpired(k) /\ UNCHANGED <<coreVars, inVars, tlsVars, lastlog, qhist, work>>)

(***************************************************************************)
(* SpecQ: the reply queues alone. Any thread may call sendreply for any    *)
(* client (radsrv's local answers, replyh); each queue has one writer,     *)
(* udpserverwr for the queue the UDP clients share and one tlsserverwr for *)
(* a TLS client, which takes the first reply under the queue's mutex and   *)
(* sends it after it released the mutex. qhist keeps, per client, the      *)
(* replies in the order sendreply was called (enq), the reply the writer   *)
(* holds (hand) and the replies it sent (sent).                            *)
(***************************************************************************)
\* replies sendreply queues for one client in one behaviour
MaxReplies == 3

\* the replies queued: each answers another request of the client
QReplies == [code : {"Access-Accept"}, id : 1 .. 3, auth : {"a1"}]

Range(q) == {q[k] : k \in 1 .. Len(q)}

\* sendreply, called by any thread for client c (lines 1120-1158)
SendReplyAny(c) ==
    \E b \in QReplies :
        /\ Len(qhist[c].enq) < MaxReplies
        /\ radsign(b, ClientSecret(c)) \notin Range(qhist[c].enq)
        /\ replyq' = sendreply(replyq, c, b, NoAddr, NoHist, "radsrv")
        /\ qhist' = [qhist EXCEPT ![c].enq = Append(@, radsign(b, ClientSecret(c)))]
        /\ UNCHANGED <<clock, srvconf, requests, nextid, newrq, connectionok,
                       loststatsrv, wr, nrq, lastfree>>

\* the writer of c is at the top of its loop and takes the first reply
\* (list_shift under the mutex, lines 2207-2214 and 2280-2295)
Shifted(c) ==
    /\ qhist[c].hand = NullBuf
    /\ qhist' = [qhist EXCEPT ![c].hand = Head(replyq[c]).buf]

\* sendto / SSL_write of the reply taken; the reply is freed whether or not
\* the write succeeded (lines 2215-2219 and 2296-2304)
ServerWrWrite(c) ==
    /\ qhist[c].hand # NullBuf
    /\ \E ok \in BOOLEAN :
         qhist' = [qhist EXCEPT ![c].hand = NullBuf,
                                ![c].sent = IF ok THEN Append(@, qhist[c].hand) ELSE @]
    /\ UNCHANGED coreVars

InitQ ==
    /\ InitTable({[type |-> "U", statusserver |-> FALSE]})
    /\ InOff
    /\ TlsOff
    /\ RealmOff
    /\ LogOff
    /\ WorkOff
    /\ qhist = [c \in Clients |-> [enq |-> <<>>, hand |-> NullBuf, sent |-> <<>>]]

NextQ ==
    \/ (\E c \in Clients : SendReplyAny(c)) /\ UNCHANGED <<inVars, tlsVars, realmVars, lastlog, work>>
    \/ UdpServerWr /\ Shifted("cu") /\ UNCHANGED <<inVars, tlsVars, realmVars, lastlog, work>>
    \/ TlsServerWr /\ Shifted("ct") /\ UNCHANGED <<inVars, tlsVars, realmVars, lastlog, work>>
    \/ (\E c \in Clients : ServerWrWrite(c)) /\ UNCHANGED <<inVars, tlsVars, realmVars, lastlog, work>>

SpecQ == InitQ /\ [][NextQ]_vars

(***************************************************************************)
(* SpecPwd: the User-Password cipher. A block stands for 16 octets and is  *)
(* a number of BlockBits bits; MD5 is a function of the secret and of its  *)
(* 16 octets of input into a block that takes another value for another    *)
(* input, and the exclusive or is computed bit by bit. work holds the      *)
(* plaintext (in), the secret, the authenticator and the buffer the two    *)
(* functions work on in place (buf).                                       *)
(***************************************************************************)
\* bits of a block, and blocks of a password (the program: 128 bits, 8 blocks)
BlockBits == 2
MaxBlocks == 3

BlockVals == 0 .. (2 ^ BlockBits - 1)

\* hash[i] ^ in[offset + i], over the bits of a block
RECURSIVE Xor(_, _)
Xor(a, b) ==
    IF a = 0 THEN b
    ELSE IF b = 0 THEN a
    ELSE ((a + b) % 2) + 2 * Xor(a \div 2, b \div 2)

\* EVP_DigestInit_ex, EVP_DigestUpdate(shared), EVP_DigestUpdate(input, 16),
\* EVP_DigestFinal_ex
MD5(shared, input) == (3 * input + shared + 1) % (2 ^ BlockBits)

\* pwdencrypt's loop from offset 16 * k, out being written up to there.
\* input = out + offset - 16 is computed before offset += 16: after the
\* first block it points 16 octets before out (memory that is not part of
\* out, whose content stray stands for), after block k at block k - 1.
RECURSIVE pwdencryptFrom(_, _, _, _, _, _)
pwdencryptFrom(in, out, k, input, shared, stray) ==
    IF k = Len(in) THEN out
    ELSE LET o == Append(out, Xor(MD5(shared, input), in[k + 1]))
         IN pwdencryptFrom(in, o, k + 1, IF k = 0 THEN stray ELSE o[k],
                           shared, stray)

\* pwdencrypt(in, len, shared, sharedlen, auth); memcpy(in, out, len)
pwdencrypt(in, shared, auth, stray) ==
    pwdencryptFrom(in, <<>>, 0, auth, shared, stray)

\* pwddecrypt's loop: input = in + offset, the block just deciphered
RECURSIVE pwddecryptFrom(_, _, _, _, _)
pwddecryptFrom(in, out, k, input, shared) ==
    IF k = Len(in) THEN out
    ELSE pwddecryptFrom(in, Append(out, Xor(MD5(shared, input), in[k + 1])),
                        k + 1, in[k + 1], shared)

\* pwddecrypt(in, len, shared, sharedlen, auth); memcpy(in, out, len)
pwddecrypt(in, shared, auth) == pwddecryptFrom(in, <<>>, 0, auth, shared)

Passwords == UNION {[1 .. n -> BlockVals] : n \in 1 .. MaxBlocks}

PwdEncrypt ==
    /\ work.op = "pwd"
    /\ work.pc = "plain"
    /\ \E stray \in BlockVals :
         work' = [work EXCEPT !.pc = "encrypted",
                              !.buf = pwdencrypt(@, work.shared, work.auth, stray)]
    /\ UNCHANGED <<coreVars, inVars, tlsVars, realmVars, lastlog, qhist>>

PwdDecrypt ==
    /\ work.op = "pwd"
    /\ work.pc = "encrypted"
    /\ work' = [work EXCEPT !.pc = "decrypted",
                            !.buf = pwddecrypt(@, work.shared, work.auth)]
    /\ UNCHANGED <<coreVars, inVars, tlsVars, realmVars, lastlog, qhist>>

InitPwd ==
    /\ InitTable({[type |-> "U", statusserver |-> FALSE]})
    /\ InOff
    /\ TlsOff
    /\ RealmOff
    /\ LogOff
    /\ QOff
    /\ \E p \in Passwords, shared \in 0 .. 1, auth \in BlockVals :
         work = [op |-> "pwd", pc |-> "plain", in |-> p, buf |-> p,
                 shared |-> shared, auth |-> auth]

NextPwd ==
    \/ PwdEncrypt
    \/ PwdDecrypt

SpecPwd == InitPwd /\ [][NextPwd]_vars

(***************************************************************************)
(* SpecRecrypt: pwdrecrypt and msmpprecrypt at work on an attribute value  *)
(* in memory. An octet of the model is one bit, so a block is BlockBits    *)
(* octets (the program: 16) and the salt of an MS-MPPE key is SaltLen      *)
(* octets. work.mem is the memory from the attribute's two header octets   *)
(* on: the header, the value of work.len octets, and what follows it (the  *)
(* next attributes, or the heap behind the packet).                        *)
(***************************************************************************)
\* octets of memory followed, the header of an attribute, the salt
MemLen == 9
AttrHdr == 2
SaltLen == 2

\* the number that BlockBits octets from mem[at] on stand for
RECURSIVE BlockAt(_, _, _)
BlockAt(mem, at, n) ==
    IF n = 0 THEN 0 ELSE 2 * BlockAt(mem, at, n - 1) + mem[at + n - 1]

\* the BlockBits octets a block stands for
Octets(b) == [k \in 1 .. BlockBits |-> (b \div (2 ^ (BlockBits - k))) % 2]

\* for (i = 0; i < 16; i++) text[offset + i] ^= hash[i], text + offset
\* being mem[at]
XorAt(mem, at, hash) ==
    [k \in 1 .. Len(mem) |->
        IF at <= k /\ k < at + BlockBits
        THEN (mem[k] + Octets(hash)[k - at + 1]) % 2
        ELSE mem[k]]

\* memcpy(in, out, len): len octets of out written from mem[at] on
CopyAt(mem, at, out, len) ==
    [k \in 1 .. Len(mem) |->
        IF at <= k /\ k < at + len THEN out[k - at + 1] ELSE mem[k]]

\* the blocks of the len octets from mem[at] on
BlocksAt(mem, at, len) ==
    [k \in 1 .. (len \div BlockBits) |->
        BlockAt(mem, at + (k - 1) * BlockBits, BlockBits)]

\* the octets of a sequence of blocks
OctetsOf(blocks) ==
    [k \in 1 .. (Len(blocks) * BlockBits) |->
        Octets(blocks[((k - 1) \div BlockBits) + 1])[((k - 1) % BlockBits) + 1]]

\* pwdrecrypt(pwd, len, ...), pwd being mem[at]
pwdrecrypt(mem, at, len, oldsecret, newsecret, oldauth, newauth, stray) ==
    IF len < BlockBits \/ len > 8 * BlockBits \/ len % BlockBits # 0
    THEN mem
    ELSE LET plain == pwddecrypt(BlocksAt(mem, at, len), oldsecret, oldauth)
             m1 == CopyAt(mem, at, OctetsOf(plain), len)
             enc == pwdencrypt(BlocksAt(m1, at, len), newsecret, newauth, stray)
         IN CopyAt(m1, at, OctetsOf(enc), len)

\* EVP_DigestUpdate(shared), EVP_DigestUpdate(auth, 16), EVP_DigestUpdate(salt, 2)
MD5Salt(shared, auth, salt) == MD5(shared, (auth + 2 * salt + 1) % (2 ^ BlockBits))

\* the loops of msmppencrypt and msmppdecrypt from offset on: the hash of the
\* block before in text, exclusive or with the block at offset, written to
\* out (text itself for msmppencrypt)
RECURSIVE msmppLoop(_, _, _, _, _, _, _)
msmppLoop(text, out, at, offset, len, shared, inplace) ==
    IF offset >= len THEN out
    ELSE LET src == IF inplace THEN out ELSE text
             hash == MD5(shared, BlockAt(src, at + offset - BlockBits, BlockBits))
             blk == XorAt(src, at + offset, hash)
             o == [k \in 1 .. Len(out) |->
                     IF at + offset <= k /\ k < at + offset + BlockBits
                     THEN blk[k] ELSE out[k]]
         IN msmppLoop(text, o, at, offset + BlockBits, len, shared, inplace)

\* msmppencrypt(text, len, shared, sharedlen, auth, salt): in place
msmppencrypt(mem, at, len, shared, auth, salt) ==
    msmppLoop(mem, XorAt(mem, at, MD5Salt(shared, auth, salt)),
              at, BlockBits, len, shared, TRUE)

\* msmppdecrypt: the blocks are written to plain[], of which
\* memcpy(text, plain, len) copies len octets
msmppdecrypt(mem, at, len, shared, auth, salt) ==
    LET plain == msmppLoop(mem, XorAt(mem, at, MD5Salt(shared, auth, salt)),
                           at, BlockBits, len, shared, FALSE)
    IN [k \in 1 .. Len(mem) |->
           IF at <= k /\ k < at + len THEN plain[k] ELSE mem[k]]

\* msmpprecrypt(msmpp, len, ...), msmpp being mem[at]
msmpprecrypt(mem, at, len, oldsecret, newsecret, oldauth, newauth) ==
    IF len < SaltLen + BlockBits
    THEN mem
    ELSE LET salt == BlockAt(mem, at, SaltLen)
             m1 == msmppdecrypt(mem, at + SaltLen, len - SaltLen,
                                oldsecret, oldauth, salt)
         IN msmppencrypt(m1, at + SaltLen, len - SaltLen,
                         newsecret, newauth, salt)

PwdRecrypt ==
    /\ work.op = "pwdrecrypt"
    /\ work.pc = "call"
    /\ \E stray \in BlockVals :
         work' = [work EXCEPT
                     !.pc = "done",
                     !.mem = pwdrecrypt(@, AttrHdr + 1, work.len, 0, 1,
                                        work.oldauth, work.newauth, stray)]
    /\ UNCHANGED <<coreVars, inVars, tlsVars, realmVars, lastlog, qhist>>

MsmppRecrypt ==
    /\ work.op = "msmpprecrypt"
    /\ work.pc = "call"
    /\ work' = [work EXCEPT
                    !.pc = "done",
                    !.mem = msmpprecrypt(@, AttrHdr + 1, work.len, 0, 1,
                                         work.oldauth, work.newauth)]
    /\ UNCHANGED <<coreVars, inVars, tlsVars, realmVars, lastlog, qhist>>

\* the lengths of the value: the largest leaves one block of memory behind it
ValueLens == 0 .. (MemLen - AttrHdr - BlockBits)

InitRecrypt ==
    /\ InitTable({[type |-> "U", statusserver |-> FALSE]})
    /\ InOff
    /\ TlsOff
    /\ RealmOff
    /\ LogOff
    /\ QOff
    /\ \E op \in {"pwdrecrypt", "msmpprecrypt"}, len \in ValueLens,
          mem \in [1 .. MemLen -> 0 .. 1], newauth \in {0, 3} :
         work = [op |-> op, pc |-> "call", len |-> len, before |-> mem,
                 mem |-> mem, oldauth |-> 1, newauth |-> newauth]

NextRecrypt ==
    \/ PwdRecrypt
    \/ MsmppRecrypt

SpecRecrypt == InitRecrypt /\ [][NextRecrypt]_vars

(***************************************************************************)
(* Packets as octets. attrs is the memory from buf + 20 on, an octet being *)
(* a number below 256; the first len octets of it are the attributes of    *)
(* the packet (len is RADLEN(buf) - 20), the octets behind them are the    *)
(* memory behind the packet's buffer.                                      *)
(***************************************************************************)
RAD_Attr_User_Name == 1
RAD_Attr_Vendor_Specific == 26

\* ATTRTYPE(x), ATTRLEN(x), ATTRVALLEN(x), the attribute being at mem[at]
ATTRTYPE(mem, at) == mem[at]
ATTRLEN(mem, at) == mem[at + 1]
ATTRVALLEN(mem, at) == mem[at + 1] - 2

\* the octets mem[at] .. mem[at + n - 1]
Bytes(mem, at, n) == [k \in 1 .. n |-> mem[at + k - 1]]

\* attrget(attrs, length, type), attrs being mem[at]: the place of the
\* first attribute of the type, 0 for NULL
RECURSIVE attrget(_, _, _, _)
attrget(mem, at, length, type) ==
    IF length <= 1 THEN 0
    ELSE IF ATTRTYPE(mem, at) = type THEN at
    ELSE attrget(mem, at + ATTRLEN(mem, at), length - ATTRLEN(mem, at), type)

\* attrvalidate(attrs, length)
RECURSIVE attrvalidate(_, _, _)
attrvalidate(mem, at, length) ==
    IF length <= 1 THEN TRUE
    ELSE IF ATTRLEN(mem, at) < 2 THEN FALSE
    ELSE IF length - ATTRLEN(mem, at) < 0 THEN FALSE
    ELSE attrvalidate(mem, at + ATTRLEN(mem, at), length - ATTRLEN(mem, at))

\* memmove(dst, src, n) within mem; an octet moved from or to a place the
\* model keeps no memory for is lost
memmove(mem, dst, src, n) ==
    [k \in 1 .. Len(mem) |->
        IF dst <= k /\ k < dst + n /\ src + (k - dst) <= Len(mem)
        THEN mem[src + (k - dst)] ELSE mem[k]]

\* memcpy(dst, bytes, Len(bytes))
memcpy(mem, dst, bytes) ==
    [k \in 1 .. Len(mem) |->
        IF dst <= k /\ k < dst + Len(bytes) THEN bytes[k - dst + 1] ELSE mem[k]]

\* the attributes that the first len octets of mem hold, as <<type, value>>
RECURSIVE AttrsOf(_, _, _)
AttrsOf(mem, at, length) ==
    IF length <= 1 \/ ATTRLEN(mem, at) < 2 \/ ATTRLEN(mem, at) > length THEN <<>>
    ELSE <<<<ATTRTYPE(mem, at), Bytes(mem, at + 2, ATTRVALLEN(mem, at))>>>>
         \o AttrsOf(mem, at + ATTRLEN(mem, at), length - ATTRLEN(mem, at))

\* the octets of a list of attributes
RECURSIVE Encode(_)
Encode(attrs) ==
    IF attrs = <<>> THEN <<>>
    ELSE <<attrs[1][1], Len(attrs[1][2]) + 2>> \o attrs[1][2] \o Encode(Tail(attrs))

\* a packet's buffer and the memory behind it, up to n octets
Padded(bytes, n) == bytes \o [k \in 1 .. (n - Len(bytes)) |-> 0]

(***************************************************************************)
(* SpecUser: the User-Name of an Access-Request from a client with the     *)
(* option RewriteAttribute that puts @ee for a trailing @l, and the reply   *)
(* to it. work.rq and work.reply are the packets, [len, mem]; work.orig is *)
(* the value of the User-Name as the client sent it; work.origusername is  *)
(* rq->origusername, <<>> for NULL and <<s>> for the string s.             *)
(***************************************************************************)
\* octets of memory kept for a packet's attributes and what is behind them
BufLen == 14
\* the longest User-Name a client sends
MaxName == 4

\* the characters of the user names: NUL, '@', 'l', 'u'
NameChars == {0, 64, 108, 117}

\* the string a buffer holds for strlen, regexec and stringcopy(in, 0): the
\* octets in front of the first NUL
RECURSIVE CStr(_)
CStr(bytes) ==
    IF bytes = <<>> \/ bytes[1] = 0 THEN <<>> ELSE <<bytes[1]>> \o CStr(Tail(bytes))

\* the expression, anything in group 1 and then @l, and the replacement \1@ee
RewriteSuffix == <<64, 108>>
RewriteReplacement == <<92, 49, 64, 101, 101>>

\* regexec(rq->from->conf->rewriteattrregex, in, nmatch, pmatch, 0) == 0
RewriteMatches(in) ==
    /\ Len(in) >= Len(RewriteSuffix)
    /\ SubSeq(in, Len(in) - Len(RewriteSuffix) + 1, Len(in)) = RewriteSuffix

\* in + pmatch[n].rm_so .. in + pmatch[n].rm_eo, <<>> and unmatched for n > 1
Group(in, n) == IF n = 1 THEN SubSeq(in, 1, Len(in) - Len(RewriteSuffix)) ELSE <<>>

\* the second loop of rewriteusername from out[i] on, out[start] being the
\* first character not copied yet
RECURSIVE Substitute(_, _, _, _)
Substitute(out, i, start, in) ==
    IF i > Len(out) THEN SubSeq(out, start, Len(out))
    ELSE IF out[i] = 92 /\ i < Len(out) /\ out[i + 1] >= 49 /\ out[i + 1] <= 57
    THEN IF out[i + 1] = 49
         THEN SubSeq(out, start, i - 1) \o Group(in, 1)
              \o Substitute(out, i + 2, i + 2, in)
         ELSE Substitute(out, i + 2, start, in)
    ELSE Substitute(out, i + 1, start, in)

\* resizeattr(&buf, newvallen, type): [ok, buf, val], val being the place of
\* the value. The memmove moves len - (attr - attrs + newvallen) octets, two
\* more than there are behind the value.
resizeattr(buf, newvallen, type) ==
    LET attr == attrget(buf.mem, 1, buf.len, type) IN
    IF attr = 0 THEN [ok |-> FALSE, buf |-> buf, val |-> 0]
    ELSE LET vallen == ATTRVALLEN(buf.mem, attr)
             len == (buf.len + newvallen - vallen) % 65536
             moved == memmove(buf.mem, attr + 2 + newvallen, attr + 2 + vallen,
                              len - ((attr - 1) + newvallen))
         IN IF vallen = newvallen
            THEN [ok |-> TRUE, buf |-> buf, val |-> attr + 2]
            ELSE [ok |-> TRUE, val |-> attr + 2,
                  buf |-> [len |-> len,
                           mem |-> [moved EXCEPT ![attr + 1] = (newvallen + 2) % 256]]]

\* replyh, lines 2001-2013: the first User-Name of the reply is given the
\* length and the octets of rq->origusername
RestoreName(buf, origusername) ==
    IF origusername = <<>> THEN [ok |-> TRUE, buf |-> buf]
    ELSE LET r == resizeattr(buf, Len(origusername[1]) % 256, RAD_Attr_User_Name)
         IN IF ~r.ok THEN [ok |-> FALSE, buf |-> buf]
            ELSE [ok |-> TRUE,
                  buf |-> [r.buf EXCEPT !.mem = memcpy(@, r.val, origusername[1])]]

\* radsrv, lines 1772-1790, with rewriteusername: the request is dropped
\* without a User-Name, and its User-Name rewritten if the expression matches
RadsrvUserName ==
    /\ work.op = "username"
    /\ work.pc = "request"
    /\ LET attr == attrget(work.rq.mem, 1, work.rq.len, RAD_Attr_User_Name)
           in == CStr(Bytes(work.rq.mem, attr + 2, ATTRVALLEN(work.rq.mem, attr)))
           result == Substitute(RewriteReplacement, 1, 1, in)
           r == resizeattr(work.rq, Len(result) % 256, RAD_Attr_User_Name)
       IN IF attr = 0
          THEN work' = [work EXCEPT !.pc = "dropped"]
          ELSE IF ~RewriteMatches(in)
          THEN work' = [work EXCEPT !.pc = "forwarded"]
          ELSE work' = [work EXCEPT
                           !.pc = "forwarded",
                           !.origusername = <<in>>,
                           !.rq = [r.buf EXCEPT !.mem = memcpy(@, r.val, result)]]
    /\ UNCHANGED <<coreVars, inVars, tlsVars, realmVars, lastlog, qhist>>

\* the attributes of the replies of the server: none, the name as it was
\* forwarded, a shorter name in front of another attribute, a longer name
\* behind another attribute
ReplyAttrs(rq) ==
    LET attr == attrget(rq.mem, 1, rq.len, RAD_Attr_User_Name)
        name == Bytes(rq.mem, attr + 2, ATTRVALLEN(rq.mem, attr))
    IN {<<>>,
        <<<<RAD_Attr_User_Name, name>>>>,
        <<<<RAD_Attr_User_Name, <<117>>>>, <<18, <<7, 8>>>>>>,
        <<<<18, <<7>>>>, <<RAD_Attr_User_Name, <<117, 117, 64, 101, 101>>>>>>}

\* replyh for the reply to the request, lines 2001-2030
ReplyhUserName ==
    /\ work.op = "username"
    /\ work.pc = "forwarded"
    /\ \E attrs \in ReplyAttrs(work.rq) :
         LET buf == [len |-> Len(Encode(attrs)), mem |-> Padded(Encode(attrs), BufLen)]
             r == RestoreName(buf, work.origusername)
         IN work' = [work EXCEPT !.pc = IF r.ok THEN "replied" ELSE "dropped",
                                 !.reply = r.buf]
    /\ UNCHANGED <<coreVars, inVars, tlsVars, realmVars, lastlog, qhist>>

Names == UNION {[1 .. n -> NameChars] : n \in 1 .. MaxName}

InitUser ==
    /\ InitTable({[type |-> "U", statusserver |-> FALSE]})
    /\ InOff
    /\ TlsOff
    /\ RealmOff
    /\ LogOff
    /\ QOff
    /\ \E name \in Names, more \in {<<>>, <<<<4, <<9>>>>>>} :
         LET bytes == Encode(<<<<RAD_Attr_User_Name, name>>>> \o more) IN
         work = [op |-> "username", pc |-> "request", orig |-> name,
                 origusername |-> <<>>,
                 rq |-> [len |-> Len(bytes), mem |-> Padded(bytes, BufLen)],
                 reply |-> [len |-> 0, mem |-> Padded(<<>>, BufLen)]]

NextUser ==
    \/ RadsrvUserName
    \/ ReplyhUserName

SpecUser == InitUser /\ [][NextUser]_vars

(***************************************************************************)
(* SpecRewrite: dorewrite at work on the attributes of a packet that       *)
(* attrvalidate accepted. work.rewrite is the struct rewrite: removeattrs, *)
(* the string of the types to remove, and removevendorattrs, the pairs of  *)
(* vendor and sub-type, each <<>> for NULL. work.buf is the packet,        *)
(* [len, mem]; work.cap is the number of octets of its buffer behind the   *)
(* header, and mem[cap + 1] on is the memory behind the buffer.            *)
(* work.bigendian tells the byte order of the host. A memmove that leaves  *)
(* the buffer is undefined behaviour: the call ends "undefined". A call    *)
(* whose loop does not end is "hung".                                      *)
(***************************************************************************)
\* the attributes of one packet at most
MaxAttrs == 3
\* the octets behind the buffer whose content the model chooses
Behind == 2

\* a uint32_t, as its two halves of 16 bits
U32(n) == <<n \div 65536, n % 65536>>

\* (uint32_t)-1
MinusOne32 == <<65535, 65535>>

\* a rule of a rewrite block: "vendor" (sub = -1, no colon) or "vendor:sub"
\* vattrname2val: *vendor = atoi(attrname), *type = -1 or atoi(s + 1), both
\* uint32_t
vattrname2val(rule) ==
    <<U32(rule.vendor), IF rule.sub = -1 THEN MinusOne32 ELSE U32(rule.sub)>>

\* addrewrite: the pairs of the rules, up to the terminating 0
removevendorattrsOf(rules) == [k \in 1 .. Len(rules) |-> vattrname2val(rules[k])]

\* findvendorsubattr(attrs, vendor, subattr): subattr is a uint8_t, so the
\* -1 its caller passes is 255
RECURSIVE findvendorsubattr(_, _, _)
findvendorsubattr(attrs, vendor, subattr) ==
    IF attrs = <<>> \/ attrs[1][1] = U32(0) THEN FALSE
    ELSE IF attrs[1][1] = vendor /\ attrs[1][2] = U32(subattr % 256) THEN TRUE
    ELSE findvendorsubattr(Tail(attrs), vendor, subattr)

\* *(uint32_t *)ATTRVAL(attrs): the four octets in the order of the host
VendorAt(mem, at, bigendian) ==
    IF bigendian
    THEN <<mem[at] * 256 + mem[at + 1], mem[at + 2] * 256 + mem[at + 3]>>
    ELSE <<mem[at + 3] * 256 + mem[at + 2], mem[at + 1] * 256 + mem[at]>>

\* while (*removevendorattrs && *removevendorattrs != vendor)
\*     removevendorattrs += 2
RECURSIVE FromVendor(_, _)
FromVendor(attrs, vendor) ==
    IF attrs = <<>> \/ attrs[1][1] = U32(0) THEN <<>>
    ELSE IF attrs[1][1] = vendor THEN attrs
    ELSE FromVendor(Tail(attrs), vendor)

\* a memmove of n octets to dst from src stays in a buffer of cap octets;
\* n is an int that the call converts to size_t
InBuffer(dst, src, n, cap) == n >= 0 /\ dst + n - 1 <= cap /\ src + n - 1 <= cap

\* the loop of dovendorrewrite over the sub-attributes: [pc, mem, rmlen]
RECURSIVE subrewrite(_, _, _, _, _, _, _, _)
subrewrite(mem, subattrs, sublen, length, rmlen, list, vendor, cap) ==
    IF sublen <= 1 THEN [pc |-> "done", mem |-> mem, rmlen |-> rmlen]
    ELSE IF subattrs + 1 > cap + Behind
    THEN [pc |-> "undefined", mem |-> mem, rmlen |-> rmlen]
    ELSE LET alen == ATTRLEN(mem, subattrs)
             sl == (sublen - alen) % 256
             l == (length - alen) % 65536
         IN IF alen = 0
            THEN [pc |-> "hung", mem |-> mem, rmlen |-> rmlen]
            ELSE IF findvendorsubattr(list, vendor, ATTRTYPE(mem, subattrs))
            THEN IF ~InBuffer(subattrs, subattrs + alen, l, cap)
                 THEN [pc |-> "undefined", mem |-> mem, rmlen |-> rmlen]
                 ELSE subrewrite(memmove(mem, subattrs, subattrs + alen, l),
                                 subattrs, sl, l, (rmlen + alen) % 256,
                                 list, vendor, cap)
            ELSE subrewrite(mem, subattrs + alen, sl, l, rmlen, list, vendor, cap)

\* dovendorrewrite(attrs, length, removevendorattrs), attrs being mem[at]:
\* [pc, mem, rmlen], rmlen being what it returns. sublen is alen - 4, two
\* octets more than the sub-attributes have, so attrvalidate and the loop
\* read two octets behind the attribute.
dovendorrewrite(mem, at, length, removevendorattrs, bigendian, cap) ==
    LET vendor == VendorAt(mem, at + 2, bigendian)
        list == FromVendor(removevendorattrs, vendor)
        alen == ATTRLEN(mem, at)
        sublen == (alen - 4) % 256
        subattrs == at + 2 + 4
        sub == subrewrite(mem, subattrs, sublen, (length - 6) % 65536, 0,
                          list, vendor, cap)
    IN IF at + 5 > cap
       THEN [pc |-> "undefined", mem |-> mem, rmlen |-> 0]
       ELSE IF list = <<>> THEN [pc |-> "done", mem |-> mem, rmlen |-> 0]
       ELSE IF findvendorsubattr(list, vendor, -1)
       THEN IF ~InBuffer(at, at + alen, length - alen, cap)
            THEN [pc |-> "undefined", mem |-> mem, rmlen |-> 0]
            ELSE [pc |-> "done", mem |-> memmove(mem, at, at + alen, length - alen),
                  rmlen |-> alen]
       ELSE IF subattrs + sublen - 1 > cap + Behind
       THEN [pc |-> "undefined", mem |-> mem, rmlen |-> 0]
       ELSE IF ~attrvalidate(mem, subattrs, sublen)
       THEN [pc |-> "done", mem |-> mem, rmlen |-> 0]
       ELSE IF sub.pc # "done" THEN sub
       ELSE [pc |-> "done", rmlen |-> sub.rmlen,
             mem |-> [sub.mem EXCEPT ![at + 1] = (@ - sub.rmlen) % 256]]

RECURSIVE Gcd(_, _)
Gcd(a, b) == IF b = 0 THEN a ELSE Gcd(b, a % b)

\* the while loop of dorewrite: [pc, mem, rmlen]. attrs is not advanced
\* behind a Vendor-Specific attribute that stays: once dovendorrewrite left
\* the attribute as it is, every further pass finds it again and takes
\* ATTRLEN off len, a uint16_t, until len is 0 or 1, if it ever is.
RECURSIVE dorewriteLoop(_, _, _, _, _, _, _)
dorewriteLoop(mem, attrs, len, rmlen, rewrite, bigendian, cap) ==
    IF len <= 1 THEN [pc |-> "done", mem |-> mem, rmlen |-> rmlen]
    ELSE IF attrs + 1 > cap THEN [pc |-> "undefined", mem |-> mem, rmlen |-> rmlen]
    ELSE LET alen == ATTRLEN(mem, attrs)
             l == (len - alen) % 65536
             v == dovendorrewrite(mem, attrs, l, rewrite.removevendorattrs,
                                  bigendian, cap)
         IN IF alen = 0
            THEN [pc |-> "hung", mem |-> mem, rmlen |-> rmlen]
            ELSE IF /\ rewrite.removeattrs # <<>>
                    /\ (ATTRTYPE(mem, attrs) = 0
                        \/ \E k \in 1 .. Len(rewrite.removeattrs) :
                              rewrite.removeattrs[k] = ATTRTYPE(mem, attrs))
            THEN IF ~InBuffer(attrs, attrs + alen, l, cap)
                 THEN [pc |-> "undefined", mem |-> mem, rmlen |-> rmlen]
                 ELSE dorewriteLoop(memmove(mem, attrs, attrs + alen, l), attrs, l,
                                    (rmlen + alen) % 65536, rewrite, bigendian, cap)
            ELSE IF /\ ATTRTYPE(mem, attrs) = RAD_Attr_Vendor_Specific
                    /\ rewrite.removevendorattrs # <<>>
            THEN IF v.pc # "done" THEN [pc |-> v.pc, mem |-> mem, rmlen |-> rmlen]
                 ELSE IF v.rmlen = 0
                 THEN IF l % Gcd(alen, 65536) <= 1
                      THEN [pc |-> "done", mem |-> mem, rmlen |-> rmlen]
                      ELSE [pc |-> "hung", mem |-> mem, rmlen |-> rmlen]
                 ELSE dorewriteLoop(v.mem, attrs, l, (rmlen + v.rmlen) % 65536,
                                    rewrite, bigendian, cap)
            ELSE dorewriteLoop(mem, attrs + alen, l, rmlen, rewrite, bigendian, cap)

\* dorewrite(buf, rewrite): [pc, buf]
dorewrite(buf, rewrite, bigendian, cap) ==
    IF rewrite.removeattrs = <<>> /\ rewrite.removevendorattrs = <<>>
    THEN [pc |-> "done", buf |-> buf]
    ELSE LET r == dorewriteLoop(buf.mem, 1, buf.len, 0, rewrite, bigendian, cap)
         IN [pc |-> r.pc,
             buf |-> [len |-> (buf.len - r.rmlen) % 65536, mem |-> r.mem]]

\* radsrv line 1768 and replyh line 1947: dorewrite on the packet
DoRewrite ==
    /\ work.op = "rewrite"
    /\ work.pc = "call"
    /\ LET r == dorewrite(work.buf, work.rewrite, work.bigendian, work.cap)
       IN work' = [work EXCEPT !.pc = r.pc, !.buf = r.buf]
    /\ UNCHANGED <<coreVars, inVars, tlsVars, realmVars, lastlog, qhist>>

\* the attributes of the packets: a type on the drop list, a User-Name, and
\* Vendor-Specific attributes of vendor 1 with a sub-attribute of type 5
PacketAttrs ==
    {<<4, <<9>>>>,
     <<RAD_Attr_User_Name, <<117>>>>,
     <<RAD_Attr_Vendor_Specific, <<0, 0, 0, 1, 5, 3, 8>>>>,
     <<RAD_Attr_Vendor_Specific, <<0, 0, 0, 1, 5, 6, 8, 8, 8, 8>>>>}

\* the rewrite blocks: removeAttribute 4; the same with a rule for a vendor
\* no packet names; removeVendorAttribute 1; 1:255; 1:5
Rewrites ==
    {[removeattrs |-> <<4>>, rules |-> <<>>],
     [removeattrs |-> <<4>>, rules |-> <<[vendor |-> 7, sub |-> 1]>>],
     [removeattrs |-> <<>>, rules |-> <<[vendor |-> 1, sub |-> -1]>>],
     [removeattrs |-> <<>>, rules |-> <<[vendor |-> 1, sub |-> 255]>>],
     [removeattrs |-> <<>>, rules |-> <<[vendor |-> 1, sub |-> 5]>>]}

InitRewrite ==
    /\ InitTable({[type |-> "U", statusserver |-> FALSE]})
    /\ InOff
    /\ TlsOff
    /\ RealmOff
    /\ LogOff
    /\ QOff
    /\ \E attrs \in UNION {[1 .. n -> PacketAttrs] : n \in 1 .. MaxAttrs},
          rw \in Rewrites, bigendian \in BOOLEAN, behind \in {<<0, 0>>, <<9, 2>>} :
         LET bytes == Encode(attrs) IN
         work = [op |-> "rewrite", pc |-> "call", attrs |-> attrs,
                 rules |-> rw.rules,
                 rewrite |-> [removeattrs |-> rw.removeattrs,
                              removevendorattrs |-> removevendorattrsOf(rw.rules)],
                 bigendian |-> bigendian, cap |-> Len(bytes),
                 buf |-> [len |-> Len(bytes),
                          mem |-> Padded(bytes \o behind, Len(bytes) + 16)]]

NextRewrite ==
    \/ DoRewrite

SpecRewrite == InitRewrite /\ [][NextRewrite]_vars

(***************************************************************************)
(* SpecGet: radudpget and radtlsget. work.input is what the peer sent: for *)
(* UDP the datagrams, each with the octets received and whether find_conf  *)
(* knows its sender, for TLS the octets of the stream. work.handed is the  *)
(* history of the packets returned to the caller, which hands them to      *)
(* radsrv or replyh: [buf, cnt], buf being the octets of the malloc'ed     *)
(* buffer and cnt the octets recvfrom returned (0 for TLS).                *)
(***************************************************************************)
\* datagrams or frames the peer sends in one behaviour
MaxFrames == 2

\* the octets of a frame that declares len octets and has n octets
Frame(len, n) ==
    [k \in 1 .. n |->
        IF k = 1 THEN 1 ELSE IF k = 2 THEN 7
        ELSE IF k = 3 THEN len \div 256 ELSE IF k = 4 THEN len % 256 ELSE k]

\* RADLEN(x): ntohs(((uint16_t *)(x))[1])
RADLEN(buf) == buf[3] * 256 + buf[4]

\* the mutant of the minimum of radtlsget: every frame is returned
TooSmallNever(total) == FALSE

\* radtlsget, line 904: if (total >= 20) break
TooSmall(total) == total < 20

\* radudpget for the next datagram, lines 553-616
RadUdpGet ==
    /\ work.op = "get"
    /\ work.transport = "udp"
    /\ work.input # <<>>
    /\ LET d == Head(work.input)
           cnt == Len(d.bytes)
       IN work' = [work EXCEPT
                      !.input = Tail(@),
                      !.handed =
                          IF cnt < 20 THEN @
                          ELSE IF RADLEN(d.bytes) < 20 THEN @
                          ELSE IF cnt < RADLEN(d.bytes) THEN @
                          ELSE IF ~d.known THEN @
                          ELSE Append(@, [buf |-> SubSeq(d.bytes, 1, RADLEN(d.bytes)),
                                          cnt |-> cnt])]
    /\ UNCHANGED <<coreVars, inVars, tlsVars, realmVars, lastlog, qhist>>

\* one pass of the loop of radtlsget, lines 870-909. With a declared length
\* below 4, memcpy(rad, buf, 4) writes behind the buffer of len octets:
\* undefined behaviour, after which the process goes on or ends.
RadTlsGet ==
    /\ work.op = "get"
    /\ work.transport = "tls"
    /\ work.pc = "reading"
    /\ LET len == RADLEN(work.input)
           total == IF len < 4 THEN 4 ELSE len
       IN IF Len(work.input) < 4
          THEN work' = [work EXCEPT !.pc = "lost", !.input = <<>>]
          ELSE IF len < 4
          THEN \E pc \in {"reading", "crashed"} :
                  work' = [work EXCEPT !.pc = pc,
                                       !.input = SubSeq(@, 5, Len(@))]
          ELSE IF Len(work.input) < len
          THEN work' = [work EXCEPT !.pc = "lost", !.input = <<>>]
          ELSE work' = [work EXCEPT
                           !.input = SubSeq(@, total + 1, Len(@)),
                           !.handed = IF TooSmall(total) THEN @
                                      ELSE Append(@, [buf |-> SubSeq(work.input, 1, len),
                                                      cnt |-> 0])]
    /\ UNCHANGED <<coreVars, inVars, tlsVars, realmVars, lastlog, qhist>>

\* the datagrams: declared and received lengths around the minimum of 20
Datagrams ==
    {[bytes |-> Frame(d[1], d[2]), known |-> k] :
        d \in {<<20, 20>>, <<20, 23>>, <<22, 22>>, <<23, 20>>, <<19, 19>>,
               <<5, 21>>, <<0, 20>>},
        k \in BOOLEAN}

\* the frames of a stream, the last of them cut short by the peer
Frames == {Frame(20, 20), Frame(22, 22), Frame(19, 19), Frame(5, 5),
           Frame(2, 4), Frame(24, 21), Frame(20, 3)}

RECURSIVE Concat(_)
Concat(seqs) == IF seqs = <<>> THEN <<>> ELSE seqs[1] \o Concat(Tail(seqs))

InitGet ==
    /\ InitTable({[type |-> "U", statusserver |-> FALSE]})
    /\ InOff
    /\ TlsOff
    /\ RealmOff
    /\ LogOff
    /\ QOff
    /\ \/ \E ds \in UNION {[1 .. n -> Datagrams] : n \in 1 .. MaxFrames} :
            work = [op |-> "get", transport |-> "udp", pc |-> "reading",
                    input |-> ds, handed |-> <<>>]
       \/ \E fs \in UNION {[1 .. n -> Frames] : n \in 1 .. MaxFrames} :
            work = [op |-> "get", transport |-> "tls", pc |-> "reading",
                    input |-> Concat(fs), handed |-> <<>>]

NextGet ==
    \/ RadUdpGet
    \/ RadTlsGet

SpecGet == InitGet /\ [][NextGet]_vars

(***************************************************************************)
(* SpecSig: signals. main blocks the signals of its sigset, which holds    *)
(* SIGPIPE alone, in every thread it creates, and sighandler waits for     *)
(* them with sigwait; no handler is installed for any signal, so a signal  *)
(* that is not blocked has its default action. work.running says that the  *)
(* process and with it every thread is alive, work.pending holds the       *)
(* blocked signals not yet taken by sigwait, work.log the lines sighandler *)
(* wrote, work.reopened how often the log file was reopened and work.got    *)
(* the signals sent to the process.                                        *)
(***************************************************************************)
\* signals sent to the process in one behaviour
MaxSignals == 7

Signals == {"SIGHUP", "SIGPIPE", "SIGTERM"}

\* main, lines 3272-3275: sigemptyset, sigaddset(SIGPIPE), pthread_sigmask
SigBlocked == {"SIGPIPE"}

\* the default action of SIGHUP, SIGPIPE and SIGTERM ends the process
DefaultTerminates(sig) == sig \in {"SIGHUP", "SIGPIPE", "SIGTERM"}

\* a signal is sent to the process
Kill(sig) ==
    /\ work.op = "sig"
    /\ work.running
    /\ Len(work.got) < MaxSignals
    /\ work' = [work EXCEPT
                    !.got = Append(@, sig),
                    !.pending = IF sig \in SigBlocked THEN @ \cup {sig} ELSE @,
                    !.running = IF sig \in SigBlocked THEN @
                                ELSE ~DefaultTerminates(sig)]
    /\ UNCHANGED <<coreVars, inVars, tlsVars, realmVars, lastlog, qhist>>

\* sighandler, lines 3210-3230: one pass of the loop
SigHandler ==
    /\ work.op = "sig"
    /\ work.running
    /\ \E sig \in work.pending \cap {"SIGPIPE"} :
          work' = [work EXCEPT
                      !.pending = @ \ {sig},
                      !.log = Append(@, IF sig = "SIGPIPE"
                                        THEN "sighandler: got SIGPIPE, TLS write error?"
                                        ELSE "sighandler: ignoring signal")]
    /\ UNCHANGED <<coreVars, inVars, tlsVars, realmVars, lastlog, qhist>>

InitSig ==
    /\ InitTable({[type |-> "U", statusserver |-> FALSE]})
    /\ InOff
    /\ TlsOff
    /\ RealmOff
    /\ LogOff
    /\ QOff
    /\ work = [op |-> "sig", running |-> TRUE, pending |-> {}, log |-> <<>>,
               reopened |-> 0, got |-> <<>>]

NextSig ==
    \/ \E sig \in Signals : Kill(sig)
    \/ SigHandler

SpecSig == InitSig /\ [][NextSig]_vars

(***************************************************************************)
(* SpecLock: the mutexes. A thread runs the lock, unlock, wait, signal and  *)
(* join calls of its code in their order; what it does between them is     *)
(* left out. The threads are the reader and the writer of one TLS client   *)
(* and the reader and the writer of the TLS server s1; a second server s2  *)
(* is there with its newrq_mutex, which radsrv and removeclientrqs take.   *)
(* The threads of UDP peers run the same radsrv, replyh, clientwr and      *)
(* writer loop on the mutexes of their own servers and reply queue. A      *)
(* reply handler may pick the TLS client's queue after the client is gone, *)
(* which the code does not.                                                *)
(* work.pc[t] holds the calls thread t still has to make in this round of  *)
(* its loop, work.owner the thread that holds each mutex, work.cw where a  *)
(* thread is in pthread_cond_wait, work.qn which reply queues hold a        *)
(* reply, work.newrq the servers' newrq, work.ssl whether the TLS client's  *)
(* ssl is set, work.done the threads that ended.                           *)
(***************************************************************************)
LockServers == {"s1", "s2"}
TlsLockServers == {"s1"}
ReplyQueues == {"c1"}

newrq_mutex(srv) == <<"newrq_mutex", srv>>
ServerLock(srv) == <<"lock", srv>>
ReplyqMutex(q) == <<"replyq", q>>
StaticLock(fn) == <<"static", fn>>

NewrqMutexes == {newrq_mutex(srv) : srv \in LockServers}
ServerLocks == {ServerLock(srv) : srv \in TlsLockServers}
ReplyqMutexes == {ReplyqMutex(q) : q \in ReplyQueues}
StaticLocks == {StaticLock(fn) : fn \in {"radsign", "validauth", "createmessageauth"}}
Mutexes == NewrqMutexes \cup ServerLocks \cup ReplyqMutexes \cup StaticLocks

LockThreads ==
    {"tlsserverrd", "tlsserverwr", "tlsclientrd", "clientwr1"}

NoThread == "none"
Nothing == <<"none", "none">>

Lk(m) == [op |-> "lock", a |-> m]
Un(m) == [op |-> "unlock", a |-> m]

\* radsign, validauth, createmessageauth: the static mutex around the digest
StaticOps(fn) == <<Lk(StaticLock(fn)), Un(StaticLock(fn))>>

rqinqueueOps(srv) == <<Lk(newrq_mutex(srv)), Un(newrq_mutex(srv))>>

\* sendrq: the slot is filled and the writer signalled under newrq_mutex
sendrqOps(srv) ==
    {rqinqueueOps(srv),
     <<Lk(newrq_mutex(srv))>> \o StaticOps("createmessageauth")
         \o <<[op |-> "newrq", a |-> newrq_mutex(srv)], Un(newrq_mutex(srv))>>}

\* sendreply: radsign, then the push under the queue's mutex
sendreplyOps(q) ==
    StaticOps("radsign")
        \o <<Lk(ReplyqMutex(q)), [op |-> "push", a |-> ReplyqMutex(q)],
             Un(ReplyqMutex(q))>>

\* replyh: dropped before validauth, dropped after it, or forwarded
replyhOps(srv) ==
    {rqinqueueOps(srv),
     <<Lk(newrq_mutex(srv))>> \o StaticOps("validauth") \o <<Un(newrq_mutex(srv))>>}
    \cup {<<Lk(newrq_mutex(srv))>> \o StaticOps("validauth") \o sendreplyOps(q)
              \o <<Un(newrq_mutex(srv))>> : q \in ReplyQueues}

\* radsrv: dropped, answered by the proxy, a duplicate, or forwarded
radsrvOps(q) ==
    {sendreplyOps(q)}
    \cup UNION {{rqinqueueOps(srv)} \cup {rqinqueueOps(srv) \o f : f \in sendrqOps(srv)}
                   : srv \in LockServers}

tlsconnectOps(srv) == <<Lk(ServerLock(srv)), Un(ServerLock(srv))>>

clientradputOps(srv) ==
    IF srv \in TlsLockServers THEN {<<>>, tlsconnectOps(srv)} ELSE {<<>>}

\* clientwr: the wait, a slot of the table, the send, the probe
clientwrOps(srv) ==
    {<<Lk(newrq_mutex(srv)), [op |-> "waitrq", a |-> newrq_mutex(srv)],
       Un(newrq_mutex(srv))>> \o rqinqueueOps(srv) \o put \o probe
         : put \in clientradputOps(srv), probe \in {<<>>} \cup sendrqOps(srv)}

\* tlsserverwr, udpserverwr: the writer of a reply queue
serverwrOps(q) ==
    <<Lk(ReplyqMutex(q)), [op |-> "shift", a |-> ReplyqMutex(q)], Un(ReplyqMutex(q))>>

removeclientrqsOps ==
    rqinqueueOps("s1") \o rqinqueueOps("s2")

removeclientOps(q) == <<Lk(ReplyqMutex(q)), Un(ReplyqMutex(q))>>

\* tlsserverrd when the connection is lost: the writer is joined while the
\* reply-queue mutex is still held
tlsserverrdEndJoinLocked ==
    <<[op |-> "close", a |-> Nothing], Lk(ReplyqMutex("c1")),
      [op |-> "signal", a |-> ReplyqMutex("c1")],
      [op |-> "join", a |-> <<"thread", "tlsserverwr">>], Un(ReplyqMutex("c1"))>>
        \o removeclientrqsOps \o removeclientOps("c1")
        \o <<[op |-> "exit", a |-> Nothing]>>

\* tlsserverrd when the connection is lost, and removeclient after it
tlsserverrdEnd ==
    <<[op |-> "close", a |-> Nothing], Lk(ReplyqMutex("c1")),
      [op |-> "signal", a |-> ReplyqMutex("c1")], Un(ReplyqMutex("c1")),
      [op |-> "join", a |-> <<"thread", "tlsserverwr">>]>>
        \o removeclientrqsOps \o removeclientOps("c1")
        \o <<[op |-> "exit", a |-> Nothing]>>

\* the rounds thread t can make
Rounds(t) ==
    CASE t = "tlsserverrd" -> radsrvOps("c1") \cup {tlsserverrdEnd}
      [] t = "tlsserverwr" -> {serverwrOps("c1")}
      [] t = "tlsclientrd" -> {tlsconnectOps("s1")} \cup replyhOps("s1")
      [] t = "clientwr1" -> clientwrOps("s1")

Instr(t) == IF work.pc[t] = <<>> THEN [op |-> "none", a |-> Nothing] ELSE work.pc[t][1]

\* pthread_cond_signal on the condition that goes with mutex m: one of the
\* threads waiting on it, if there is one, is woken
Woken(cw, m) ==
    LET ws == {t \in LockThreads : cw[t] = "waiting" /\ Instr(t).a = m}
    IN  IF ws = {} THEN {cw} ELSE {[cw EXCEPT ![t] = "woken"] : t \in ws}

Begin(t) ==
    /\ work.op = "lock"
    /\ work.pc[t] = <<>> /\ t \notin work.done
    /\ \E r \in Rounds(t) : r # <<>> /\ work' = [work EXCEPT !.pc[t] = r]
    /\ UNCHANGED <<coreVars, inVars, tlsVars, realmVars, lastlog, qhist>>

\* pthread_mutex_lock, and the lock a woken thread takes again
MutexLock(t) ==
    /\ work.op = "lock"
    /\ \/ /\ Instr(t).op = "lock"
          /\ work.owner[Instr(t).a] = NoThread
          /\ work' = [work EXCEPT !.owner[Instr(t).a] = t, !.pc[t] = Tail(@)]
       \/ /\ work.cw[t] = "woken"
          /\ work.owner[Instr(t).a] = NoThread
          /\ work' = [work EXCEPT !.owner[Instr(t).a] = t, !.cw[t] = "no"]
    /\ UNCHANGED <<coreVars, inVars, tlsVars, realmVars, lastlog, qhist>>

MutexUnlock(t) ==
    /\ work.op = "lock"
    /\ Instr(t).op = "unlock"
    /\ work' = [work EXCEPT !.owner[Instr(t).a] = NoThread, !.pc[t] = Tail(@)]
    /\ UNCHANGED <<coreVars, inVars, tlsVars, realmVars, lastlog, qhist>>

\* sendreply: list_push, and the signal if the queue was empty
Push(t) ==
    /\ work.op = "lock"
    /\ Instr(t).op = "push"
    /\ \E cw \in (IF work.qn[Instr(t).a] THEN {work.cw} ELSE Woken(work.cw, Instr(t).a)) :
          work' = [work EXCEPT !.qn[Instr(t).a] = TRUE, !.cw = cw, !.pc[t] = Tail(@)]
    /\ UNCHANGED <<coreVars, inVars, tlsVars, realmVars, lastlog, qhist>>

\* the writers' loop over the empty queue: take a reply, or end because
\* ssl is NULL, or wait on the condition
Shift(t) ==
    /\ work.op = "lock"
    /\ Instr(t).op = "shift" /\ work.cw[t] = "no"
    /\ IF work.qn[Instr(t).a]
       THEN \E more \in BOOLEAN :
               work' = [work EXCEPT !.qn[Instr(t).a] = more, !.pc[t] = Tail(@)]
       ELSE IF t = "tlsserverwr" /\ ~work.ssl
            THEN work' = [work EXCEPT
                             !.pc[t] = <<Un(Instr(t).a), [op |-> "exit", a |-> Nothing]>>]
            ELSE work' = [work EXCEPT !.owner[Instr(t).a] = NoThread,
                                      !.cw[t] = "waiting"]
    /\ UNCHANGED <<coreVars, inVars, tlsVars, realmVars, lastlog, qhist>>

\* sendrq: if (!to->newrq) { to->newrq = 1; pthread_cond_signal }
NewRq(t) ==
    /\ work.op = "lock"
    /\ Instr(t).op = "newrq"
    /\ \E cw \in (IF work.newrq[Instr(t).a] THEN {work.cw} ELSE Woken(work.cw, Instr(t).a)) :
          work' = [work EXCEPT !.newrq[Instr(t).a] = TRUE, !.cw = cw, !.pc[t] = Tail(@)]
    /\ UNCHANGED <<coreVars, inVars, tlsVars, realmVars, lastlog, qhist>>

\* clientwr: if (!server->newrq) wait; if (server->newrq) server->newrq = 0
WaitRq(t) ==
    /\ work.op = "lock"
    /\ Instr(t).op = "waitrq" /\ work.cw[t] = "no"
    /\ \/ /\ ~work.newrq[Instr(t).a] /\ work.owner[Instr(t).a] = t
          /\ work' = [work EXCEPT !.owner[Instr(t).a] = NoThread,
                                  !.cw[t] = "waiting",
                                  !.pc[t] = <<[op |-> "waited", a |-> Instr(t).a]>> \o Tail(@)]
       \/ /\ work.newrq[Instr(t).a]
          /\ work' = [work EXCEPT !.newrq[Instr(t).a] = FALSE, !.pc[t] = Tail(@)]
    /\ UNCHANGED <<coreVars, inVars, tlsVars, realmVars, lastlog, qhist>>

\* clientwr after its wait, the mutex taken again
Waited(t) ==
    /\ work.op = "lock"
    /\ Instr(t).op = "waited" /\ work.cw[t] = "no"
    /\ work' = [work EXCEPT !.newrq[Instr(t).a] = FALSE, !.pc[t] = Tail(@)]
    /\ UNCHANGED <<coreVars, inVars, tlsVars, realmVars, lastlog, qhist>>

\* pthread_cond_timedwait reaches its timeout
TimedOut(t) ==
    /\ work.op = "lock"
    /\ Instr(t).op = "waited" /\ work.cw[t] = "waiting"
    /\ work' = [work EXCEPT !.cw[t] = "woken"]
    /\ UNCHANGED <<coreVars, inVars, tlsVars, realmVars, lastlog, qhist>>

\* tlsserverrd: client->ssl = NULL
Close(t) ==
    /\ work.op = "lock"
    /\ Instr(t).op = "close"
    /\ work' = [work EXCEPT !.ssl = FALSE, !.pc[t] = Tail(@)]
    /\ UNCHANGED <<coreVars, inVars, tlsVars, realmVars, lastlog, qhist>>

CondSignal(t) ==
    /\ work.op = "lock"
    /\ Instr(t).op = "signal"
    /\ \E cw \in Woken(work.cw, Instr(t).a) :
          work' = [work EXCEPT !.cw = cw, !.pc[t] = Tail(@)]
    /\ UNCHANGED <<coreVars, inVars, tlsVars, realmVars, lastlog, qhist>>

Join(t) ==
    /\ work.op = "lock"
    /\ Instr(t).op = "join"
    /\ Instr(t).a[2] \in work.done
    /\ work' = [work EXCEPT !.pc[t] = Tail(@)]
    /\ UNCHANGED <<coreVars, inVars, tlsVars, realmVars, lastlog, qhist>>

ThreadExit(t) ==
    /\ work.op = "lock"
    /\ Instr(t).op = "exit"
    /\ work' = [work EXCEPT !.done = @ \cup {t}, !.pc[t] = <<>>]
    /\ UNCHANGED <<coreVars, inVars, tlsVars, realmVars, lastlog, qhist>>

InitLock ==
    /\ InitTable({[type |-> "T", statusserver |-> TRUE]})
    /\ InOff
    /\ TlsOff
    /\ RealmOff
    /\ LogOff
    /\ QOff
    /\ work = [op |-> "lock",
               pc |-> [t \in LockThreads |-> <<>>],
               owner |-> [m \in Mutexes |-> NoThread],
               cw |-> [t \in LockThreads |-> "no"],
               qn |-> [m \in ReplyqMutexes |-> FALSE],
               newrq |-> [m \in NewrqMutexes |-> FALSE],
               ssl |-> TRUE,
               done |-> {}]

NextLock ==
    \/ \E t \in LockThreads : Begin(t)
    \/ \E t \in LockThreads : MutexLock(t)
    \/ \E t \in LockThreads : MutexUnlock(t)
    \/ \E t \in LockThreads : Push(t)
    \/ \E t \in LockThreads : Shift(t)
    \/ \E t \in LockThreads : NewRq(t)
    \/ \E t \in LockThreads : WaitRq(t)
    \/ \E t \in LockThreads : Waited(t)
    \/ \E t \in LockThreads : TimedOut(t)
    \/ \E t \in LockThreads : Close(t)
    \/ \E t \in LockThreads : CondSignal(t)
    \/ \E t \in LockThreads : Join(t)
    \/ \E t \in LockThreads : ThreadExit(t)

SpecLock == InitLock /\ [][NextLock]_vars

(***************************************************************************)
(* Properties of the request table (Spec).                                 *)
(***************************************************************************)
\* the replies replyh put on the queue of client c that are still queued
RepliesOf(c) == {replyq[c][k] : k \in 1 .. Len(replyq[c])}

\* C1: every reply that replyh enqueued carries the id of the request it
\* answers as the client sent it, an authenticator computed over that
\* request's authenticator with the client's secret, sits on the queue of the
\* client that sent the request and, for the UDP client, is addressed to the
\* source address of the request.
C1_ReplyRestored ==
    \A c \in Clients : \A r \in RepliesOf(c) :
        r.via = "replyh" =>
            /\ r.hist.from = c
            /\ r.buf.id = r.hist.id
            /\ r.buf.auth = [over |-> r.hist.auth, sec |-> ClientSecret(c)]
            /\ r.tosa = (IF ClientType(c) = "U" THEN r.hist.fromsa ELSE NoAddr)

\* a reply to the UDP client's datagram from a2 with id 7, which was stored
\* in a slot while another request of that client was in the table
C1_Witness ==
    \E r \in RepliesOf("cu") :
        /\ r.via = "replyh"
        /\ r.hist = [from |-> "cu", fromsa |-> "a2", id |-> 7, auth |-> "o2"]
        /\ \E i \in SlotIds : InUse(i) /\ requests[i].hist.id = 8

\* C2: for a request stored in a slot, replyh enqueues at most one reply.
C2_AtMostOneReply == \A i \in SlotIds : requests[i].nfwd <= 1

\* a request whose reply was enqueued and has left the queue, so that the
\* only thing that keeps a second reply with its id off the queue is the
\* received flag
C2_Witness ==
    \E i \in SlotIds :
        /\ InUse(i) /\ requests[i].received /\ requests[i].nfwd = 1
        /\ requests[i].from # NULL
        /\ replyq[requests[i].from] = <<>>

\* C3: the packet of an in-use slot i has i as its id byte, and no step
\* replaces the request of an in-use slot (only the writer's free empties it).
SameRequest(a, b) ==
    /\ a.buf = b.buf /\ a.from = b.from /\ a.fromsa = b.fromsa
    /\ a.origid = b.origid /\ a.origauth = b.origauth
    /\ a.hist = b.hist /\ a.created = b.created
    /\ a.tries <= b.tries

C3_SlotIdIsIndex ==
    /\ [](\A i \in SlotIds : InUse(i) => requests[i].buf.id = i)
    /\ [][\A i \in SlotIds :
            InUse(i) => \/ requests'[i].buf = NullBuf
                        \/ SameRequest(requests[i], requests'[i])]_vars

\* the table is full, and slot 0 was stored after slot 1: sendrq wrapped
\* around past the in-use slot 1
C3_Witness ==
    /\ \A i \in SlotIds : InUse(i)
    /\ requests[0].created > requests[1].created

\* C4 as stated: no two in-use slots hold requests of the same client with
\* the same original id.
C4_OneSlotPerPair ==
    \A i, j \in SlotIds :
        (i # j /\ InUse(i) /\ InUse(j) /\ requests[i].from # NULL
            /\ requests[i].from = requests[j].from)
        => requests[i].origid # requests[j].origid

\* C4 amended: no two in-use slots that have not received their reply hold
\* requests of the same client with the same original id.
C4_OneUnreceivedSlotPerPair ==
    \A i, j \in SlotIds :
        (i # j /\ InUse(i) /\ InUse(j) /\ requests[i].from # NULL
            /\ requests[i].from = requests[j].from
            /\ ~requests[i].received /\ ~requests[j].received)
        => requests[i].origid # requests[j].origid

\* the second request with the pair of a slot was stored because that slot
\* already had its reply, and is itself unreceived
C4_Witness ==
    \E i, j \in SlotIds :
        /\ i # j /\ InUse(i) /\ InUse(j)
        /\ requests[i].from = "cu" /\ requests[j].from = "cu"
        /\ requests[i].origid = requests[j].origid
        /\ requests[i].received /\ ~requests[j].received

(***************************************************************************)
(* Properties of the timers (SpecTime).                                    *)
(***************************************************************************)
\* slot i holds a request that radsrv forwarded to a UDP server
UdpRequestSlot(i) ==
    InUse(i) /\ srvconf.type = "U" /\ requests[i].buf.code = "Access-Request"

max_tries(i) ==
    IF srvconf.type = "T" \/ requests[i].buf.code = "Status-Server"
    THEN 1 ELSE REQUEST_RETRIES

HandshakeDone == inc.cert # NoCert

\* C8: the writer is started, tlsserverrd entered and radsrv invoked only
\* when the handshake succeeded, the chain validated and verifyconfcert
\* accepted the certificate for the connection's configuration; a connection
\* for which one of them failed has no writer and had no packet handed to
\* radsrv.
C8_ServedOnlyVerified ==
    /\ (inc.pc \in {"serve", "read"} \/ inc.writer \/ inc.served \/ inc.nradsrv > 0)
       => /\ HandshakeDone
          /\ inc.chainok
          /\ inc.verified = 1
          /\ \E ptr \in PointerBytes :
                verifyconfcert(inc.cert, clconfs[inc.conf], ptr) = 1
    /\ (inc.pc \in {"exit", "closed"}
          /\ (~HandshakeDone \/ ~inc.chainok \/ inc.verified = 0))
       => /\ ~inc.writer /\ ~inc.served /\ inc.nradsrv = 0
          /\ \A i \in SlotIds : requests[i].from # "ct"

\* the peer's second packet was handed to radsrv while the writer runs
C8_Witness ==
    /\ inc.pc = "read" /\ inc.writer /\ inc.nradsrv = 2
    /\ \E i \in SlotIds : InUse(i) /\ requests[i].from = "ct"

\* the configurations that match the address of the connection, and those of
\* them whose checks accept its certificate
MatchingConfs ==
    {k \in 1 .. Len(clconfs) : ConfMatches("T", inc.addr, clconfs[k])}

AcceptingConfs ==
    {k \in MatchingConfs :
        \A ptr \in PointerBytes : verifyconfcert(inc.cert, clconfs[k], ptr) = 1}

\* C9: a connection whose certificate some matching configuration accepts is
\* served, under the first such configuration; one that is rejected after
\* the handshake has no matching configuration that accepts its certificate.
C9_FirstAcceptingConfig ==
    (HandshakeDone /\ inc.chainok /\ AcceptingConfs # {})
    => /\ inc.served => inc.conf = SetMin(AcceptingConfs)
       /\ inc.pc \in {"exit", "closed"} => inc.served

\* the iPAddress entries of a certificate
SanAddrs(cert) ==
    {cert.san[k].v : k \in {j \in 1 .. Len(cert.san) : cert.san[j].type = "IPADD"}}

\* the certificate satisfies the regex options of the configuration
RegexOptionsMatch(cert, conf) ==
    /\ conf.certcnregex # NoRegex
          => \E k \in 1 .. Len(cert.cn) : cert.cn[k] \in conf.certcnregex
    /\ conf.certuriregex # NoRegex
          => \E k \in 1 .. Len(cert.san) :
                cert.san[k].type = "URI" /\ cert.san[k].v \in conf.certuriregex

\* C10: when the host of the connection's configuration is an IP literal,
\* verifyconfcert accepted the certificate iff it has an iPAddress entry equal
\* to that address and satisfies the regex options.
C10_IpLiteralNeedsSanIp ==
    (inc.verified \in {0, 1} /\ clconfs[inc.conf].prefixlen = 255
        /\ inet_pton4(clconfs[inc.conf].host) # <<>>)
    => (inc.verified = 1
          <=> /\ inet_pton4(clconfs[inc.conf].host) \in SanAddrs(inc.cert)
              /\ RegexOptionsMatch(inc.cert, clconfs[inc.conf]))

(***************************************************************************)
(* Properties of the upstream TLS session (SpecTls).                       *)
(***************************************************************************)
\* C7: no packet is written to an upstream session that completed its
\* handshake and whose certificate has not passed verifytlscert and
\* verifyconfcert: every session SSL_write sent a packet on after its
\* handshake had been verified.
C7_WritesOnlyToVerified ==
    \A w \in sent : w.handshaken => w.verified

(***************************************************************************)
(* Properties of the teardown of the inbound TLS connection (SpecIn).      *)
(***************************************************************************)
\* C11: once the client of the connection is freed, no slot of the server's
\* request table has it as from and nothing is in, or is put on, its reply
\* queue: removeclientrqs has cleared every slot before removeclient, and
\* replyh, which reads from and enqueues under the same mutex, finds NULL.
C11_NoReplyToFreedClient ==
    inc.pc = "closed"
    => /\ \A i \in SlotIds : requests[i].from # "ct"
       /\ replyq["ct"] = <<>>

\* the client is freed while a request of it that was sent upstream waits for
\* its reply
C11_Witness ==
    /\ inc.pc = "closed"
    /\ \E i \in SlotIds :
        /\ InUse(i) /\ requests[i].hist.from = "ct"
        /\ requests[i].tries >= 1 /\ ~requests[i].received
        /\ requests[i].from = NULL

\* C12: after the reader loop has left (pthread_join entered) the writer
\* exits, the join returns and the teardown sweeps the request slots and
\* then closes the socket.
C12_TeardownCompletes ==
    /\ (inc.pc = "join") ~> (inc.pc = "closed" /\ inc.wpc = "exited")
    /\ [][inc'.pc # inc.pc /\ inc.served
            => /\ inc'.pc = "exit" => inc.pc = "join" /\ inc.wpc = "exited"
               /\ inc'.pc = "closed" => inc.pc = "exit"]_vars

\* the positions inside the reconnect loop of tlsconnect
LoopPcs == {"loop", "sleep", "tcp", "connect", "verify"}

\* C13: at most one thread is inside the reconnect loop of tlsconnect, and it
\* holds server->lock; a thread that enters tlsconnect with a reading of
\* lastconnecttry that is no longer the server's returns and leaves the
\* server (session, lock, lastconnecttry) as it is.
C13_ReconnectSerialized ==
    /\ [](/\ Cardinality({t \in Threads : th[t].pc \in LoopPcs}) <= 1
          /\ \A t \in Threads : th[t].pc \in LoopPcs => server.lock = t)
    /\ [][\A t \in Threads :
            (/\ th[t].pc = "tlsconnect" /\ th'[t].pc # "tlsconnect"
             /\ th[t].when # NoWhen /\ th[t].when # server.lastconnecttry)
            => th'[t].pc = "return" /\ server' = server]_vars

\* clientradput's tlsconnect has returned with a stale reading while the
\* session is the one tlsclientrd made in the only reconnection
C13_Witness ==
    /\ th["wr"].pc = "return" /\ th["wr"].text = "clientradput"
    /\ th["wr"].when # server.lastconnecttry
    /\ server.attempts = 2
    /\ server.ssl.by = "rd" /\ server.ssl.verified

(***************************************************************************)
(* Properties of the choice among the servers of a realm (SpecRealm).      *)
(***************************************************************************)
\* the servers realm2server prefers: connected and no probe lost
Preferred == {k \in ServerIds : srvconfs[k].connectionok /\ srvconfs[k].loststatsrv = 0}

\* to has the smallest loststatsrv of the servers in set
SmallestLost(to, set) ==
    /\ to \in set
    /\ \A j \in set : srvconfs[to].loststatsrv <= srvconfs[j].loststatsrv

\* C14 as stated: when no server is connected with no probe lost, the choice
\* is a server with the smallest positive loststatsrv among all the servers
\* of the realm, and the first server only when there is none.
C14_SmallestOfAll ==
    [][(routed' # routed /\ Preferred = {})
       => LET pos == {k \in ServerIds : srvconfs[k].loststatsrv > 0}
          IN  IF pos # {} THEN SmallestLost(routed'.to, pos)
                          ELSE routed'.to = 1]_vars

\* C14 amended: the choice is a server with the smallest positive
\* loststatsrv among the servers with connectionok set, the first of them in
\* the list among equals, and the first server of the list only when no
\* server has connectionok set.
C14_SmallestOfConnected ==
    [][(routed' # routed /\ Preferred = {})
       => LET pos == {k \in ServerIds : srvconfs[k].connectionok}
          IN  IF pos # {}
              THEN /\ SmallestLost(routed'.to, pos)
                   /\ \A j \in pos : j < routed'.to
                         => srvconfs[j].loststatsrv > srvconfs[routed'.to].loststatsrv
              ELSE routed'.to = 1]_vars

\* the second server was chosen for having lost fewer probes than the first
C14_Witness ==
    /\ routed.to = 2
    /\ srvconfs[1].connectionok /\ srvconfs[2].connectionok
    /\ srvconfs[2].loststatsrv > 0
    /\ srvconfs[1].loststatsrv > srvconfs[2].loststatsrv

\* C15 as stated: when three probes to the first server have expired in a
\* row, its loststatsrv is 3, and a request is routed to the second server
\* when that has loststatsrv 0.
C15_RoutedToSecond ==
    /\ [](\A k \in ServerIds :
            srvconfs[k].lostrun = 3 => srvconfs[k].loststatsrv = 3)
    /\ [][(routed' # routed /\ srvconfs[1].lostrun = 3
             /\ srvconfs[2].loststatsrv = 0)
          => routed'.to = 2]_vars

\* C15 amended: the request is routed to the second server when that has
\* connectionok set and loststatsrv 0.
C15_RoutedToConnectedSecond ==
    /\ [](\A k \in ServerIds :
            srvconfs[k].lostrun = 3 => srvconfs[k].loststatsrv = 3)
    /\ [][(routed' # routed /\ srvconfs[1].lostrun = 3
             /\ srvconfs[2].connectionok /\ srvconfs[2].loststatsrv = 0)
          => routed'.to = 2]_vars

\* the second server is chosen after the first, still connected, has lost
\* three probes in a row
C15_Witness ==
    /\ routed.to = 2
    /\ srvconfs[1].lostrun = 3 /\ srvconfs[1].connectionok
    /\ srvconfs[2].connectionok /\ srvconfs[2].loststatsrv = 0

\* C16: a server with StatusServer set that has stopped answering, and whose
\* connection stays up, eventually has a positive loststatsrv.
C16_DeadServerDetected ==
    \A k \in 1 .. MaxServers :
        [](srvconfs[k].statusserver /\ srvconfs[k].started /\ ~srvconfs[k].answers
            => <>(srvconfs[k].loststatsrv > 0 \/ ~srvconfs[k].conn))

\* C17: when the first server, without StatusServer, has stopped answering
\* and the second server stays connected with no lost probe, realm2server
\* eventually chooses a server other than the first.
C17_FailoverWithoutStatusServer ==
    [](~srvconfs[1].statusserver /\ srvconfs[1].started /\ ~srvconfs[1].answers
        => <>(\/ realm2server(srvconfs) # 1
              \/ ~srvconfs[2].connectionok
              \/ srvconfs[2].loststatsrv > 0))

(***************************************************************************)
(* Properties of Spec: the replies of the server to Status-Server probes.  *)
(***************************************************************************)
\* C18: no reply that replyh put on a client's queue answers a Status-Server
\* probe, and the step in which a probe's slot becomes received changes
\* nothing else but connectionok and loststatsrv, which it sets and clears.
C18_ProbeReplyNotForwarded ==
    /\ [](\A c \in Clients : \A n \in 1 .. Len(replyq[c]) :
             replyq[c][n].via = "replyh" => replyq[c][n].hist # NoHist)
    /\ [][\A i \in SlotIds :
            (/\ requests[i].buf.code = "Status-Server"
             /\ ~requests[i].received
             /\ requests'[i].received)
            => /\ requests' = [requests EXCEPT ![i].received = TRUE]
               /\ replyq' = replyq
               /\ connectionok' = TRUE
               /\ loststatsrv' = 0
               /\ UNCHANGED <<clock, srvconf, nextid, newrq, wr, nrq, lastfree>>]_vars

\* a probe has its answer while a client's queue holds a forwarded reply
C18_Witness ==
    /\ \E i \in SlotIds :
            requests[i].buf.code = "Status-Server" /\ requests[i].received
    /\ \E c \in Clients : \E n \in 1 .. Len(replyq[c]) : replyq[c][n].via = "replyh"

(***************************************************************************)
(* Properties of SpecRq: what radsrv drops and what it rejects.            *)
(***************************************************************************)
\* the steps that change neither a reply queue nor the request table
Silent == replyq' = replyq /\ requests' = requests

\* the lines logged for the requests C19 names
DropLines ==
    {"radsrv: server currently accepts only access-requests, accounting-requests and status-server, ignoring",
     "radsrv: attribute validation failed, ignoring packet",
     "radsrv: message authentication failed",
     "radudpget: got packet from wrong or unknown UDP peer, ignoring",
     "radsrv: ignoring request, don't know where to send it"}

RejectFor(p, from) ==
    radsign([code |-> "Access-Reject", id |-> p.snd.id, auth |-> p.snd.auth,
             attrs |-> <<[type |-> "Reply-Message", val |-> RealmMessage(p.realm)]>>],
            ClientSecret(from))

\* what the intake of p from the client from has to do when realm2server
\* has no server for it
RejectedOrDropped(p, from) ==
    /\ requests' = requests /\ nextid' = nextid /\ newrq' = newrq
    /\ IF RealmMessage(p.realm) # NULL
       THEN /\ Len(replyq'[from]) = Len(replyq[from]) + 1
            /\ SubSeq(replyq'[from], 1, Len(replyq[from])) = replyq[from]
            /\ replyq'[from][Len(replyq'[from])].buf = RejectFor(p, from)
            /\ \A c \in Clients \ {from} : replyq'[c] = replyq[c]
       ELSE replyq' = replyq

\* the Access-Request of a client for a realm, with the fault given
AccessRequestOf(from, realm, fault) ==
    [snd |-> CHOOSE x \in ClientSends : x.from = from /\ x.id = 7 /\ x.auth = "o1",
     code |-> "Access-Request", fault |-> fault, realm |-> realm]

\* C20: an Access-Request for a realm for which realm2server returns no
\* server puts one Access-Reject with the request's id and the realm's
\* message as Reply-Message on the sender's queue when the realm has a
\* message and nothing otherwise, and stores nothing in the request table.
C20_RejectWhenNoServer ==
    [][\A realm \in Realms :
        realm2server(RealmServers(realm)) = 0
        => \A newauth \in NewAuths :
            LET pu == AccessRequestOf("cu", realm, "ok")
                pt == AccessRequestOf("ct", realm, "ok")
            IN  /\ RejectedOrDropped(pu, "cu") \/ ~UdpIntake(pu.snd.fromsa, pu, newauth)
                /\ RejectedOrDropped(pt, "ct") \/ ~TlsIntake(pt, newauth)]_vars

\* the reject with the realm's message is queued for the TLS client while a
\* forwarded request has its slot
C20_Witness ==
    /\ lastlog = "radsrv: sending reject"
    /\ \E n \in 1 .. Len(replyq["ct"]) :
            /\ replyq["ct"][n].via = "radsrv"
            /\ replyq["ct"][n].buf.code = "Access-Reject"
            /\ replyq["ct"][n].buf.id = 7
            /\ replyq["ct"][n].buf.attrs
                   = <<[type |-> "Reply-Message", val |-> RealmMessage("r0")]>>
    /\ \E i \in SlotIds : InUse(i)

\* C21: an Accounting-Request is stored in the request table of the server
\* of its realm, and every Accounting-Response on a client's queue was put
\* there by replyh, from a packet of that server.
C21_AccountingForwarded ==
    \A c \in Clients : \A n \in 1 .. Len(replyq[c]) :
        replyq[c][n].buf.code = "Accounting-Response" => replyq[c][n].via = "replyh"

(***************************************************************************)
(* Properties of Spec: the full request table.                             *)
(***************************************************************************)
\* every slot of the table is in use
TableFull == \A i \in SlotIds : InUse(i)

\* C22: when radsrv hands a request to sendrq (nrq counts it) or the writer
\* hands it a probe while every slot is in use, no slot, nextid or newrq
\* changes, the writer is where it was (but for the probe's writer, which
\* goes on to the top of its loop) and no reply is queued.
C22_FullTableDrops ==
    /\ [][(TableFull /\ nrq' # nrq)
            => /\ requests' = requests /\ nextid' = nextid /\ newrq' = newrq
               /\ wr' = wr /\ replyq' = replyq]_vars
    /\ [][(TableFull /\ wr.pc = "status" /\ wr'.pc # "status")
            => /\ requests' = requests /\ nextid' = nextid /\ newrq' = newrq
               /\ replyq' = replyq]_vars

\* two requests were handed to sendrq, the writer has freed no slot yet, and
\* the full table holds one of them beside a probe: the other was dropped
C22_Witness ==
    /\ TableFull
    /\ nrq = 2
    /\ lastfree = "none"
    /\ Cardinality({i \in SlotIds : requests[i].buf.code = "Access-Request"}) = 1

\* the place of reply b in the sequence q
Pos(q, b) == CHOOSE k \in 1 .. Len(q) : q[k] = b

\* C23: the replies a queue's writer sent are replies sendreply queued, and
\* it sent them in the order in which sendreply queued them, whatever the
\* interleaving of the threads that queue and of the writer.
C23_RepliesSentInOrder ==
    \A c \in DOMAIN qhist :
        LET e == qhist[c].enq
            t == IF qhist[c].hand = NullBuf THEN qhist[c].sent
                 ELSE Append(qhist[c].sent, qhist[c].hand)
        IN /\ \A k \in 1 .. Len(t) : t[k] \in Range(e)
           /\ \A k \in 1 .. Len(t), l \in 1 .. Len(t) :
                k < l => Pos(e, t[k]) < Pos(e, t[l])

\* three replies were queued for the UDP client while its writer was at
\* work, and the writer sent the first and the last of them
C23_Witness ==
    /\ qhist # <<>>
    /\ Len(qhist["cu"].enq) = 3
    /\ qhist["cu"].sent = <<qhist["cu"].enq[1], qhist["cu"].enq[3]>>

\* The steps of clientwr that run with server->newrq_mutex held: the top of
\* the loop and the wait (locked at 2100, released at 2124), one pass of the
\* scan (locked at 2127, released at 2130, 2143, 2151, 2168 or 2170) and the
\* probe, whose sendrq locks the mutex itself (1082). At "send" the writer
\* has released the mutex at 2170 and runs lines 2172-2179 without it.
WrHoldsMutex(pc) == pc \in {"top", "wait", "scan", "status"}

\* C24: a step of clientwr that writes a field of a slot of the request
\* table, nextid or newrq is a step it makes with newrq_mutex held.
C24_TableAccessUnderMutex ==
    [][(wr' # wr /\ <<requests, nextid, newrq>>' # <<requests, nextid, newrq>>)
          => WrHoldsMutex(wr.pc)]_vars

\* C25: a password of 1 to 8 blocks that pwdencrypt enciphered and
\* pwddecrypt deciphered with the same secret and authenticator is the
\* password again.
C25_PwdRoundTrip ==
    (work.op = "pwd" /\ work.pc = "decrypted") => work.buf = work.in

\* the octets of memory that the call at work may change: the value for
\* pwdrecrypt, the value behind its salt for msmpprecrypt
Targeted(k) ==
    /\ k > AttrHdr + (IF work.op = "msmpprecrypt" THEN SaltLen ELSE 0)
    /\ k <= AttrHdr + work.len

\* C26: pwdrecrypt and msmpprecrypt leave every octet outside the targeted
\* part of the attribute value as it was, whatever the length of the value.
C26_OnlyTargetChanges ==
    (work.op \in {"pwdrecrypt", "msmpprecrypt"} /\ work.pc = "done")
        => \A k \in 1 .. MemLen : ~Targeted(k) => work.mem[k] = work.before[k]

\* the values of the User-Name attributes of a packet
UserNames(buf) ==
    LET attrs == AttrsOf(buf.mem, 1, buf.len)
    IN {attrs[k][2] : k \in {n \in 1 .. Len(attrs) : attrs[n][1] = RAD_Attr_User_Name}}

\* the octets of the packet are those of a list of attributes
WellFormed(buf) == Encode(AttrsOf(buf.mem, 1, buf.len)) = Bytes(buf.mem, 1, buf.len)

\* C27: the reply to a request whose User-Name was rewritten goes to the
\* client with one User-Name, of the octets the client sent, and with a
\* length that its attributes fill.
C27_UserNameRestored ==
    (work.op = "username" /\ work.pc = "replied" /\ work.origusername # <<>>)
        => /\ UserNames(work.reply) = {work.orig}
           /\ WellFormed(work.reply)

\* the packet at work holds exactly the attributes as, and has their length
PacketIs(as) ==
    /\ work.pc = "done"
    /\ work.buf.len = Len(Encode(as))
    /\ Bytes(work.buf.mem, 1, work.buf.len) = Encode(as)

\* the vendors that the rules of the rewrite block at work name
RuleVendors == {work.rules[k].vendor : k \in 1 .. Len(work.rules)}

\* the vendor of a Vendor-Specific attribute: its first four octets
VendorOf(a) == ((a[2][1] * 256 + a[2][2]) * 256 + a[2][3]) * 256 + a[2][4]

NotInDropSet(a) == ~\E k \in 1 .. Len(work.rewrite.removeattrs) : work.rewrite.removeattrs[k] = a[1]

\* C28: after dorewrite with a drop set, and with no rule for a vendor of
\* the packet, the packet holds the attributes whose type is not in the drop
\* set, in their order and as they were, and its length is that of them.
C28_DropSetRemoved ==
    (/\ work.op = "rewrite"
     /\ work.pc # "call"
     /\ work.rewrite.removeattrs # <<>>
     /\ RuleVendors \cap {1} = {})
        => PacketIs(SelectSeq(work.attrs, NotInDropSet))

NotOfRuleVendor(a) == ~(a[1] = RAD_Attr_Vendor_Specific /\ VendorOf(a) \in RuleVendors)

\* C29: after dorewrite with a rule that names a vendor and no sub-type, the
\* packet holds the attributes that are not Vendor-Specific attributes of
\* that vendor, as they were, and its length is that of them.
C29_VendorDropped ==
    (/\ work.op = "rewrite"
     /\ work.pc # "call"
     /\ \E k \in 1 .. Len(work.rules) : work.rules[k].sub = -1)
        => PacketIs(SelectSeq(work.attrs, NotOfRuleVendor))

\* C30: every packet that radudpget or radtlsget returned declares a length
\* of 20 or more and has a buffer of exactly that many octets; a packet of
\* radudpget declares no more octets than were received.
C30_HandedPacketsSized ==
    work.op = "get"
        => \A k \in 1 .. Len(work.handed) :
              LET p == work.handed[k]
              IN /\ RADLEN(p.buf) >= 20
                 /\ Len(p.buf) = RADLEN(p.buf)
                 /\ work.transport = "udp" => RADLEN(p.buf) <= p.cnt

\* a datagram of 23 octets that declares 20 was returned in a buffer of 20
C30_Witness ==
    /\ work.op = "get"
    /\ work.transport = "udp"
    /\ work.input = <<>>
    /\ Len(work.handed) = 1
    /\ work.handed[1].cnt = 23
    /\ Len(work.handed[1].buf) = 20

\* C31: once SIGHUP was sent, the process is still running and the log file
\* was reopened.
C31_SighupReopensLog ==
    (work.op = "sig" /\ \E k \in 1 .. Len(work.got) : work.got[k] = "SIGHUP")
        => work.running /\ work.reopened >= 1

\* the reasons for which C32 says replyh drops a reply, read off the packet
\* and the slot its id names
DropCase(p, rq) ==
    /\ p.buf.code \in ReplyCodes
    /\ \/ rq.buf = NullBuf
       \/ rq.tries = 0
       \/ rq.received
       \/ p.buf.auth # [over |-> rq.buf.auth, sec |-> ServerSecret]
       \/ p.fault \in {"badattrs", "badmsgauth"}
       \/ p.fault = "mppefail" /\ rq.buf.code # "Status-Server" /\ rq.from # NULL

\* a reply without fault to a client's request that was sent and has no
\* reply yet
ValidCase(p, rq) ==
    /\ p.buf.code \in ReplyCodes
    /\ p.fault = "ok"
    /\ rq.buf # NullBuf /\ rq.buf.code = "Access-Request"
    /\ rq.tries > 0
    /\ ~rq.received
    /\ rq.from # NULL
    /\ p.buf.auth = [over |-> rq.buf.auth, sec |-> ServerSecret]

\* C32: a step of replyh that drops a reply for one of the listed reasons
\* changes no slot and no reply queue, and a step of replyh for a valid reply
\* to a slot without reply marks the slot received and enqueues one reply to
\* the slot's client.
C32_DroppedReplyLeavesSlot ==
    [][\A p \in ReplyPackets :
          LET rq == requests[p.buf.id] IN
          replyh(p.buf, p.fault)
              => /\ DropCase(p, rq)
                     => requests' = requests /\ replyq' = replyq
                 /\ ValidCase(p, rq)
                     => /\ requests'[p.buf.id].received
                        /\ Len(replyq'[rq.from]) = Len(replyq[rq.from]) + 1]_vars

\* replyh dropped a reply with a wrong authenticator for a slot that was sent
\* and still waits for its reply
C32_Witness ==
    /\ lastlog = "replyh: invalid auth, ignoring reply"
    /\ requests[0].buf # NullBuf
    /\ requests[0].tries > 0
    /\ ~requests[0].received
    /\ replyq["cu"] = <<>>

\* C33: every step of replyh, for a packet it drops as for one it takes,
\* leaves connectionok set and loststatsrv zero.
C33_EveryPacketResetsDeadness ==
    [][\A p \in ReplyPackets :
          replyh(p.buf, p.fault) => connectionok' = TRUE /\ loststatsrv' = 0]_vars

\* a probe expired, which counted it lost, and the last packet of the server,
\* one of a code replyh discards, left the count at zero
C33_Witness ==
    /\ lastfree = "expired"
    /\ loststatsrv = 0
    /\ lastlog = "replyh: discarding, only accept access accept, access reject and access challenge messages"

\* C34: a request stored in a slot of the UDP server and not yet transmitted
\* is eventually transmitted (tries at least 1).
C34_StoredRequestTransmitted ==
    \A i \in SlotIds :
        (InUse(i) /\ requests[i].tries = 0) ~> (requests[i].tries >= 1)

\* sendrq stored a request and signalled while the writer was inside its
\* wait, with another request already transmitted
C34_Witness ==
    /\ work = [op |-> "cond", woken |-> TRUE]
    /\ wr.pc = "wait"
    /\ InUse(1) /\ requests[1].tries = 0
    /\ InUse(0) /\ requests[0].tries >= 1

\* the writer in its wait is woken by newrq or has a deadline that is not
\* after the expiry of any slot in use that has no reply
WakeDeadline ==
    wr.pc = "wait"
        => \A i \in SlotIds :
              (InUse(i) /\ ~requests[i].received)
                  => \/ newrq
                     \/ wr.timeout # 0 /\ wr.timeout <= requests[i].expiry

\* a slot is in use early enough for the clock of the model to reach the
\* end of its life
EarlyInUse(i) == InUse(i) /\ clock + FreeWithin <= TimeMax

\* C35, as stated: the writer in its wait always has the wake deadline, and
\* every slot in use is eventually freed, whatever the transport.
C35_EverySlotFreed ==
    /\ []WakeDeadline
    /\ \A i \in SlotIds : EarlyInUse(i) ~> ~InUse(i)

\* C35, amended: the writer in its wait always has the wake deadline, and
\* every slot in use is eventually freed unless the writer is inside
\* tlsconnect, where a TLS upstream that is not up holds it.
C35_SlotFreedUnlessInTlsConnect ==
    /\ []WakeDeadline
    /\ \A i \in SlotIds : EarlyInUse(i) ~> (~InUse(i) \/ InTlsConnect)

\* over TLS a request was sent once, expired without a reply and was freed
C35_Witness ==
    /\ srvconf.type = "T"
    /\ work = [op |-> "link", up |-> TRUE]
    /\ lastfree = "expired"
    /\ nrq = 1
    /\ \A i \in SlotIds : ~InUse(i)

\* C36: with client->ssl null, the writer that leaves its wait exits when the
\* reply queue is empty and otherwise takes the first reply of the queue,
\* which it then passes to SSL_write; it exits only with the queue empty.
C36_SentinelTestedOnEmptyQueue ==
    [][/\ (inc.ssl = "null" /\ inc.wpc = "wait" /\ inc'.wpc # "wait")
            => IF replyq["ct"] = <<>>
               THEN inc'.wpc = "exited"
               ELSE inc'.wpc = "write" /\ replyq'["ct"] = Tail(replyq["ct"])
       /\ (inc.wpc # "exited" /\ inc'.wpc = "exited")
            => replyq["ct"] = <<>> /\ inc.ssl = "null"]_vars

\* the reader has set client->ssl to null and waits in pthread_join while the
\* writer holds a reply it is about to pass to SSL_write
C36_Witness ==
    /\ inc.pc = "join"
    /\ inc.ssl = "null"
    /\ inc.wpc = "write"

\* C37: a step of replyh for a reply that has no User-Name and is valid
\* otherwise, to a request whose User-Name was rewritten, changes no slot
\* (the slot stays in use and without reply, for the writer to retransmit
\* and expire) and no reply queue.
C37_NamelessReplyDropped ==
    [][\A p \in ReplyPackets :
          LET rq == requests[p.buf.id] IN
          (/\ replyh(p.buf, p.fault)
           /\ p.fault = "nouser"
           /\ p.buf.code \in ReplyCodes
           /\ rq.buf # NullBuf /\ rq.buf.code = "Access-Request"
           /\ rq.tries > 0 /\ ~rq.received /\ rq.from # NULL
           /\ p.buf.auth = [over |-> rq.buf.auth, sec |-> ServerSecret]
           /\ rq.origusername)
              => /\ requests' = requests
                 /\ replyq' = replyq
                 /\ InUse(p.buf.id) /\ ~requests'[p.buf.id].received]_vars

\* replyh dropped a reply for want of a User-Name to restore, and the slot
\* of the rewritten request still waits for its reply
C37_Witness ==
    /\ lastlog = "replyh: malloc failed, ignoring reply"
    /\ requests[0].buf # NullBuf
    /\ requests[0].origusername
    /\ requests[0].tries > 0
    /\ ~requests[0].received
    /\ replyq["cu"] = <<>>

\* a slot without reply holds a request with the id that came from another
\* source address
OtherAddrSlot(id, a) ==
    \E i \in SlotIds :
        /\ InUse(i) /\ ~requests[i].received
        /\ requests[i].origid = id
        /\ requests[i].fromsa # a

EarlierAuths(i) ==
    IF InUse(i) THEN work.all[i] \ {requests[i].buf.auth} ELSE work.all[i]

\* C39: a step of replyh for a reply whose digest is over the authenticator
\* of a request that was in the slot earlier changes no slot and no reply
\* queue, and a step of replyh that enqueues a reply is for a reply whose
\* digest is over the authenticator of the request in the slot.
C39_LateReplyNotDelivered ==
    [][\A p \in LateReplyPackets :
          replyh(p.buf, p.fault)
              => /\ p.buf.auth.over \in EarlierAuths(p.buf.id)
                     => UNCHANGED <<requests, replyq>>
                 /\ replyq' # replyq
                     => /\ InUse(p.buf.id)
                        /\ p.buf.auth.over = requests[p.buf.id].buf.auth]_vars

\* the client's request is in slot 0 for the second time, sent and without
\* reply, after the first expired there
C39_Witness ==
    /\ work.op = "rand"
    /\ InUse(0) /\ requests[0].from = "cu"
    /\ requests[0].tries >= 1 /\ ~requests[0].received
    /\ lastfree = "expired"
    /\ nrq = 2
    /\ EarlierAuths(0) # {}

\* the mutexes thread t holds
Held(t) == {m \in Mutexes : work.owner[m] = t}

\* the mutex thread t is about to take
Wanted(t) ==
    IF Instr(t).op = "lock" \/ work.cw[t] = "woken" THEN {Instr(t).a} ELSE {}

\* the thread that thread t waits for: the owner of the mutex it is about to
\* take, or the thread it joins
WaitsFor(t) ==
    IF Wanted(t) # {} /\ work.owner[Instr(t).a] # NoThread
    THEN work.owner[Instr(t).a]
    ELSE IF Instr(t).op = "join" /\ Instr(t).a[2] \notin work.done
         THEN Instr(t).a[2]
         ELSE NoThread

RECURSIVE WaitChain(_, _)
\* the thread reached from t after n steps along WaitsFor
WaitChain(t, n) ==
    IF n = 0 \/ t = NoThread THEN t ELSE WaitChain(WaitsFor(t), n - 1)

WaitCycle ==
    \E t \in LockThreads, n \in 1 .. Cardinality(LockThreads) : WaitChain(t, n) = t

\* a thread that is joined waits on a condition nobody will signal
JoinedAsleep ==
    \E t \in LockThreads :
        /\ Instr(t).op = "join"
        /\ work.cw[Instr(t).a[2]] = "waiting"

\* C40: a thread that holds a reply-queue mutex takes no newrq_mutex and no
\* server->lock, no thread holds or takes two newrq_mutex, no thread in
\* tlsconnect holds a newrq_mutex, and no threads wait for each other in a
\* cycle.
C40_NoWaitCycle ==
    work.op = "lock" =>
        /\ \A t \in LockThreads :
              /\ Held(t) \cap ReplyqMutexes # {}
                    => Wanted(t) \cap (NewrqMutexes \cup ServerLocks) = {}
              /\ Cardinality((Held(t) \cup Wanted(t)) \cap NewrqMutexes) <= 1
              /\ (Held(t) \cup Wanted(t)) \cap ServerLocks # {}
                    => Held(t) \cap NewrqMutexes = {}
        /\ ~WaitCycle
        /\ ~JoinedAsleep

\* replyh in sendreply holds the server's newrq_mutex and waits for the
\* reply-queue mutex, which tlsserverrd holds for its signal
C40_Witness ==
    /\ work.op = "lock"
    /\ newrq_mutex("s1") \in Held("tlsclientrd")
    /\ Wanted("tlsclientrd") = {ReplyqMutex("c1")}
    /\ WaitsFor("tlsclientrd") = "tlsserverrd"
    /\ Instr("tlsserverrd").op = "signal"

====
